---- MODULE Spec2Model ----
\* Verification model of the n8n local installer (lekman/n8n):
\* the install command, its Cloudflare Tunnel provisioning pipeline
\* (setupCloudflareTunnel on top of CloudflareService) and the local
\* configuration store / container orchestrator it drives.
EXTENDS Naturals, Integers, Sequences, FiniteSets, TLC

\* ------------------------------------------------------------------
\* Bounds
\* ------------------------------------------------------------------
\* number of install runs performed one after the other on one host
MaxRuns == 2

\* ------------------------------------------------------------------
\* Values
\* ------------------------------------------------------------------
\* characters are one-letter strings, strings are sequences of characters
AlNum == {"a", "n", "x", "c", "8", "N"}
Hyphen == "-"

\* faulty variant: the middle part may be 62 characters long
isValidSubdomain_Middle62(subdomain) ==
  \/ /\ Len(subdomain) = 1
     /\ subdomain[1] \in AlNum
  \/ /\ Len(subdomain) >= 2
     /\ Len(subdomain) - 2 <= 62
     /\ subdomain[1] \in AlNum
     /\ subdomain[Len(subdomain)] \in AlNum
     /\ \A i \in 2..(Len(subdomain) - 1) : subdomain[i] \in AlNum \cup {Hyphen}

\* cloudflare.ts isValidSubdomain: /^[a-z0-9]([a-z0-9-]{0,61}[a-z0-9])?$/i
isValidSubdomain(subdomain) ==
  \/ /\ Len(subdomain) = 1
     /\ subdomain[1] \in AlNum
  \/ /\ Len(subdomain) >= 2
     /\ Len(subdomain) - 2 <= 61
     /\ subdomain[1] \in AlNum
     /\ subdomain[Len(subdomain)] \in AlNum
     /\ \A i \in 2..(Len(subdomain) - 1) : subdomain[i] \in AlNum \cup {Hyphen}

\* values of --subdomain; the empty string stands for an absent flag
\* (both are falsy in `if (options.subdomain)`)
SubdomainFlags == { <<>>, <<"n", "8", "n">>, <<"-", "n">> }
\* what the operator may type at the subdomain prompt
SubdomainInputs == { <<"n", "8", "n">>, <<"-", "n">>, <<"n", "_">> }

\* zones the remote account may list
Zone1 == [id |-> "z1", name |-> <<"x", ".", "c">>, status |-> "active", account |-> "acc1"]
Zone2 == [id |-> "z2", name |-> <<"a", ".", "c">>, status |-> "active", account |-> ""]
NoZone == [id |-> "", name |-> <<>>, status |-> "", account |-> ""]
\* possible results of GET /zones?status=active
ZoneLists == { <<>>, <<Zone1>>, <<Zone2, Zone1>> }
\* possible results of GET /accounts
AccountLists == { <<>>, <<"acc1">> }
\* values of --domain; the empty string stands for an absent flag
DomainFlags == { <<>>, <<"x", ".", "c">>, <<"n", ".", "c">> }
\* status values of GET /user/tokens/verify
TokenStatuses == {"active", "disabled"}

\* outcome of one fetch: an envelope with success=true, an envelope with
\* success=false, or a transport failure (fetch rejects)
Outcomes == {"ok", "rejected", "neterr"}

NoRecord == [id |-> 0, zoneId |-> "", name |-> <<>>, content |-> <<0, "">>]
NoTunnel == [id |-> 0, name |-> <<>>]
NoConfig == [apiToken |-> "", accountId |-> "", zoneId |-> "", zoneName |-> <<>>,
             tunnelId |-> 0, tunnelName |-> <<>>, tunnelToken |-> <<>>,
             hostname |-> <<>>, dnsRecordId |-> 0]

VARIABLES
  pc,          \* position of the running install() / "idle" / "exited"
  exit,        \* how the last run ended: none, running, exit0, exit1, uncaught, returned
  options,     \* InstallOptions of the current run
  inflight,    \* requests sent by CloudflareService.request and not yet answered
  calls,       \* requests issued in this run, in order
  localOps,    \* local side effects performed in this run, in order
  stepsOk,     \* provisioning steps that succeeded in this run
  failedAt,    \* the provisioning step whose failure started the compensation
  accountId,   \* CloudflareService.accountId (the cache)
  loc,         \* locals of install() and setupCloudflareTunnel()
  tunnels,     \* remote: tunnels that exist (not deleted)
  ingress,     \* remote: ingress configuration per tunnel id
  dnsRecords,  \* remote: DNS records
  nextId,      \* remote: next fresh object id
  files,       \* config store: generated files on disk
  containers,  \* container orchestrator: what composeUp started
  runs,        \* number of runs started
  svc,         \* one CloudflareService instance driven call by call (SpecClient)
  gate,        \* one ensureRuntime() call and the host it probes (SpecGate)
  poll,        \* one waitForReady() / waitForHealthy() call and its clock (SpecPoll)
  un,          \* one uninstall() run and the installation it removes (SpecUninstall)
  sub,         \* one isValidSubdomain() call (SpecSubdomain)
  det,         \* one detectRuntime() call and its three sub-probes (SpecDetect)
  rwt          \* one runWithTimeout() call: its timer, child process and promise (SpecTimeout)

installVars == <<pc, exit, options, inflight, calls, localOps, stepsOk, failedAt, accountId,
                 loc, tunnels, ingress, dnsRecords, nextId, files, containers, runs>>

\* the state of the component specifications, which install() runs leave alone
auxVars == <<svc, gate, poll, un, sub, det, rwt>>

\* what the actions of each component specification leave alone
clientFrame == <<installVars, gate, poll, un, sub, det, rwt>>
gateFrame == <<installVars, svc, poll, un, sub, det, rwt>>
pollFrame == <<installVars, svc, gate, un, sub, det, rwt>>
uninstallFrame == <<installVars, svc, gate, poll, sub, det, rwt>>
subdomainFrame == <<installVars, svc, gate, poll, un, det, rwt>>
detectFrame == <<installVars, svc, gate, poll, un, sub, rwt>>
timeoutFrame == <<installVars, svc, gate, poll, un, sub, det>>

vars == <<installVars, auxVars>>

remoteVars == <<tunnels, ingress, dnsRecords, nextId>>
hostVars == <<files, containers>>

NoOptions == [force |-> FALSE, local |-> FALSE, domain |-> <<>>, subdomain |-> <<>>]

InitLoc == [runtime |-> "", alreadyInstalled |-> FALSE, addingTunnelToExisting |-> FALSE,
            tokenStatus |-> "", zones |-> <<>>, selectedZone |-> NoZone, subdomain |-> <<>>,
            fullHostname |-> <<>>, existingRecord |-> NoRecord, asked |-> FALSE,
            shouldUpdate |-> FALSE, tunnel |-> NoTunnel, tunnelToken |-> <<>>,
            dnsRecordId |-> 0, tunnelConfig |-> NoConfig,
            failure |-> ""]   \* history: the step that failed, outside the try blocks of
                              \* setupCloudflareTunnel (those set failedAt)

\* what an awaited call hands back: a value, or a thrown error
NoError == [type |-> "", message |-> <<>>]
NoOutcome == [kind |-> "none", data |-> <<>>, error |-> NoError]
Return(data) == [kind |-> "return", data |-> data, error |-> NoError]
Throw(type, message) ==
  [kind |-> "throw", data |-> <<>>, error |-> [type |-> type, message |-> message]]

\* a CloudflareService right after `new CloudflareService(apiToken)`, no call made
InitSvc ==
  [pc |-> "idle",          \* idle, accounts, zones, own (awaiting that answer), done
   n |-> 0,                \* method calls made so far
   method |-> "",          \* the method being called / called last
   accountId |-> "",       \* this.accountId
   sent |-> <<>>,          \* requests the current call has put on the wire
   log |-> <<>>,           \* answers the current call has received, with request()'s outcome
   acct |-> NoOutcome,     \* outcome of getAccountId() inside the current call
   result |-> NoOutcome,   \* outcome of the current call
   firstId |-> "",         \* history: the first id getAccountId() returned
   lookupsAfter |-> 0]     \* history: lookup requests sent after that first return

\* a RuntimeStatus with nothing detected (versions are left out of the model)
NoStatus ==
  [orbstack |-> [installed |-> FALSE, running |-> FALSE],
   docker |-> [installed |-> FALSE, running |-> FALSE],
   homebrew |-> [installed |-> FALSE],
   ready |-> FALSE,
   activeRuntime |-> ""]

\* a host with no runtime, no docker CLI and no Homebrew
NoHost == [orbstack |-> FALSE, dockerApp |-> FALSE, dockerCli |-> FALSE, homebrew |-> FALSE,
           engine |-> "none", starting |-> ""]

\* no ensureRuntime() call under way
InitGate ==
  [pc |-> "idle",                   \* position inside ensureRuntime()
   ci |-> FALSE,                    \* process.env.CI is set
   autoInstall |-> FALSE,           \* options.autoInstall
   preferredRuntime |-> "orbstack", \* options.preferredRuntime
   prompt |-> "none",               \* onPrompt: absent ("none") or its answer
   host |-> NoHost,                 \* what is installed and which engine answers
   status |-> NoStatus,             \* the latest detectRuntime() result
   detected |-> NoStatus,           \* history: the first detectRuntime() result
   elapsed |-> 0,                   \* Date.now() - startTime inside waitForReady()
   cmds |-> <<>>,                   \* remediation commands issued, in order
   remedy |-> "",                   \* which remediation waitForReady() follows
   polled |-> FALSE,                \* waitForReady() has run `docker info`
   result |-> "none",               \* none, returned, threw
   error |-> "",                    \* the message thrown
   firstInfoOk |-> FALSE,           \* history: `docker info` exited 0 in the first detection
   firstReady |-> FALSE]            \* history: the first detection reported ready

\* no polling loop under way
InitPoll ==
  [loop |-> "",           \* waitForReady or waitForHealthy
   timeoutMs |-> 0,       \* the loop's deadline
   intervalMs |-> 0,      \* the loop's sleep
   pc |-> "idle",         \* head, probe, fetch, sleep, done; hung: awaiting for ever
   now |-> 0,             \* Date.now() - startTime
   result |-> "none",     \* none, true, false
   iterations |-> 0,      \* history: loop bodies entered
   issuedAt |-> 0,        \* history: `now` when the latest loop body was entered
   probeAt |-> 0,         \* history: `now` when the latest probe was sent
   probes |-> 0,          \* history: probes sent
   succeededIn |-> 0,     \* history: the iteration in which a probe succeeded, else 0
   slept |-> 0]           \* history: length of the latest sleep

\* nothing installed
NoInstallation ==
  [compose |-> FALSE,       \* docker-compose.yml exists
   env |-> FALSE,           \* .env exists
   tunnelConfig |-> FALSE,  \* a TunnelConfig is persisted
   container |-> "none",    \* none, stopped, running
   volume |-> FALSE,        \* the n8n_data volume exists
   dnsRecord |-> FALSE,     \* the CNAME record of the TunnelConfig exists
   tunnel |-> FALSE]        \* the tunnel of the TunnelConfig exists

\* no uninstall() under way
InitUn ==
  [pc |-> "idle",           \* check, confirm, askVolumes, down, clean, done
   force |-> FALSE,         \* options.force
   removeVolumes |-> FALSE, \* options.removeVolumes
   host |-> NoInstallation,
   hasVolume |-> FALSE,     \* what volumeExists() answered
   exit |-> "none",         \* none, 0: process.exit(0), returned
   confirmed |-> "none",    \* history: the answer to the first prompt
   askedVolumes |-> "none", \* history: the answer to the data-removal prompt
   flag |-> FALSE,          \* history: --remove-volumes as given on the command line
   down |-> "none",         \* history: none, ok, failed: how composeDown ended
   host0 |-> NoInstallation,\* history: the installation when the run began
   ops |-> <<>>,            \* history: destructive actions attempted
   calls |-> <<>>]          \* history: remote calls issued

\* no isValidSubdomain() call made
InitSub == [pc |-> "idle",      \* idle, called, returned
            subdomain |-> <<>>, \* the argument
            result |-> FALSE]   \* the value returned

\* what a sub-probe of detectRuntime() has found so far
NoEngine == [pc |-> "idle", installed |-> FALSE, running |-> FALSE, version |-> ""]

\* no detectRuntime() call under way
InitDet ==
  [pc |-> "idle",          \* idle, await: Promise.all pending, done
   host |-> NoHost,
   answers |-> <<>>,       \* what each command of this detection has answered
   orbstack |-> NoEngine,  \* detectOrbStack(): which, status, info, version, done
   docker |-> NoEngine,    \* detectDockerDesktop(): which, info, version, done
   homebrew |-> [pc |-> "idle", installed |-> FALSE],  \* detectHomebrew(): which, done
   order |-> <<>>,         \* history: the sub-probes in the order they completed
   result |-> <<>>]        \* the RuntimeStatus returned

\* no runWithTimeout() call under way
InitRwt ==
  [command |-> "",
   timer |-> "none",       \* none, armed, fired, cleared
   proc |-> "none",        \* none, running, killed: signalled but not gone yet, exited
   exitCode |-> 0,         \* what proc.exited resolves with
   onExit |-> "none",      \* the .then callback: none, reading: awaiting the stdout
                           \* text, stalled: that read never ends, done, caught
   promise |-> "none",     \* none, pending, resolved, rejected
   value |-> "none",       \* none, null, result
   resolveCalls |-> 0,     \* history: calls of resolve()
   first |-> "none"]       \* history: which callback ran first, timer or exit

\* install(): the state before the first run
InstallInit ==
  /\ pc = "idle"
  /\ exit = "none"
  /\ options = NoOptions
  /\ inflight = {}
  /\ calls = <<>>
  /\ localOps = <<>>
  /\ stepsOk = {}
  /\ failedAt = ""
  /\ accountId = ""
  /\ loc = InitLoc
  /\ tunnels = {}
  /\ ingress = {}
  /\ dnsRecords = {}
  /\ nextId = 1
  /\ files = [compose |-> "", env |-> "", tunnelEnv |-> NoConfig]
  /\ containers = "none"
  /\ runs = 0

Init ==
  /\ InstallInit
  /\ svc = InitSvc
  /\ gate = InitGate
  /\ poll = InitPoll
  /\ un = InitUn
  /\ sub = InitSub
  /\ det = InitDet
  /\ rwt = InitRwt


\* ------------------------------------------------------------------
\* Helpers
\* ------------------------------------------------------------------
\* one request of CloudflareService.request as it goes on the wire
Req(op, method, tunnelId, zoneId, recordId, hostname, content) ==
  [op |-> op, method |-> method, account |-> accountId, tunnelId |-> tunnelId,
   zoneId |-> zoneId, recordId |-> recordId, hostname |-> hostname, content |-> content]

\* request(): an envelope with success=false makes it throw, and so does a
\* rejected fetch; only success=true returns to the caller
RequestThrows(outcome) == outcome # "ok"

\* `${tunnelId}.cfargotunnel.com`
cnameTarget(tunnelId) == <<tunnelId, "cfargotunnel.com">>

\* faulty variant: the zone name is left out of the hostname
fullHostnameOf_NoZone(subdomain, zone) == subdomain

\* `${subdomain}.${selectedZone.name}`
fullHostnameOf(subdomain, zone) == subdomain \o <<".">> \o zone.name

\* generateTunnelName(): n8n-{host}-{4 hex chars}
Suffixes == {"ab12"}
generateTunnelName(suffix) == <<"n8n", "host", suffix>>

\* config store: exists() of the two generated files
dockerComposeExists(f) == f.compose # ""
envFileExists(f) == f.env # ""

\* the local state once step has failed
Failed(l, step) == [l EXCEPT !.failure = step]

\* process.exit(code): the run is over
Exit(code) ==
  /\ pc' = "exited"
  /\ exit' = code

\* ------------------------------------------------------------------
\* install(): start of a run, steps 1-4
\* ------------------------------------------------------------------
StartRun ==
  /\ pc \in {"idle", "exited"}
  /\ runs < MaxRuns
  /\ runs' = runs + 1
  /\ \E f \in BOOLEAN, l \in BOOLEAN, d \in DomainFlags, s \in SubdomainFlags :
       \* --domain and --subdomain are read by setupCloudflareTunnel only, which
       \* a --local run never calls: they are left out of --local runs
       /\ l => (d = <<>> /\ s = <<>>)
       /\ options' = [force |-> f, local |-> l, domain |-> d, subdomain |-> s]
  /\ pc' = "ensureRuntime"
  /\ exit' = "running"
  /\ inflight' = {}
  /\ calls' = <<>>
  /\ localOps' = <<>>
  /\ stepsOk' = {}
  /\ failedAt' = ""
  /\ accountId' = ""
  /\ loc' = InitLoc
  /\ UNCHANGED <<remoteVars, hostVars>>
  /\ UNCHANGED auxVars

\* faulty variant: a failed readiness gate is reported and the run goes on
GateContinues_Always(threw) == TRUE

\* `try { await ensureRuntime(...) } catch { ...; process.exit(1) }`
GateContinues(threw) == ~threw

\* step 1: the readiness gate either returns a status or throws
EnsureRuntime ==
  /\ pc = "ensureRuntime"
  /\ \E threw \in BOOLEAN :
       /\ loc' = IF threw THEN Failed([loc EXCEPT !.runtime = "failed"], "ensureRuntime")
                  ELSE [loc EXCEPT !.runtime = "ready"]
       /\ IF GateContinues(threw)
            THEN /\ pc' = "checkInstalled"
                 /\ UNCHANGED exit
            ELSE Exit("exit1")
  /\ UNCHANGED <<options, inflight, calls, localOps, stepsOk, failedAt, accountId,
                 remoteVars, hostVars, runs>>
  /\ UNCHANGED auxVars

\* faulty variant: the tunnel is set up whatever --local says
useTunnel_Always(opts) == TRUE

\* `const useTunnel = !options.local`
useTunnel(opts) == ~opts.local

\* step 2: alreadyInstalled / addingTunnelToExisting, and the early exit
CheckInstalled ==
  /\ pc = "checkInstalled"
  /\ LET alreadyInstalled == dockerComposeExists(files) /\ envFileExists(files)
         addingTunnelToExisting == alreadyInstalled /\ useTunnel(options) /\ ~options.force
     IN /\ loc' = [loc EXCEPT !.alreadyInstalled = alreadyInstalled,
                              !.addingTunnelToExisting = addingTunnelToExisting]
        /\ IF alreadyInstalled /\ options.local /\ ~options.force
             THEN Exit("exit0")
             ELSE /\ pc' = IF addingTunnelToExisting THEN "validateToken" ELSE "port"
                  /\ UNCHANGED exit
  /\ UNCHANGED <<options, inflight, calls, localOps, stepsOk, failedAt, accountId,
                 remoteVars, hostVars, runs>>
  /\ UNCHANGED auxVars

\* faulty variant: a port in use is reported and the run goes on
PortInUseExits_Never(portAvailable) == FALSE

\* `if (!portAvailable) { ...; process.exit(1) }`
PortInUseExits(portAvailable) == ~portAvailable

\* step 3: isPortAvailable(8443)
CheckPort ==
  /\ pc = "port"
  /\ \E portAvailable \in BOOLEAN :
       /\ localOps' = Append(localOps, "isPortAvailable")
       /\ loc' = IF portAvailable THEN loc ELSE Failed(loc, "isPortAvailable")
       /\ IF PortInUseExits(portAvailable)
            THEN Exit("exit1")
            ELSE /\ pc' = "pull"
                 /\ UNCHANGED exit
  /\ UNCHANGED <<options, inflight, calls, stepsOk, failedAt, accountId,
                 remoteVars, hostVars, runs>>
  /\ UNCHANGED auxVars

\* step 4: pullImage()
PullImage ==
  /\ pc = "pull"
  /\ \E pulled \in BOOLEAN :
       /\ localOps' = Append(localOps, "pullImage")
       /\ IF ~pulled
            THEN /\ Exit("exit1")
                 /\ loc' = Failed(loc, "pullImage")
            ELSE /\ pc' = IF useTunnel(options) THEN "validateToken" ELSE "config"
                 /\ UNCHANGED <<exit, loc>>
  /\ UNCHANGED <<options, inflight, calls, stepsOk, failedAt, accountId,
                 remoteVars, hostVars, runs>>
  /\ UNCHANGED auxVars


\* ------------------------------------------------------------------
\* CloudflareService: the requests of one provisioning run
\* ------------------------------------------------------------------
RemoteSteps == {"validateToken", "getAccounts", "getAccountIdZones", "listZones",
                "findDnsRecord", "createTunnel", "configureTunnelIngress",
                "getTunnelToken", "dnsRecord", "deleteTunnel"}

\* faulty variant: the ingress body is sent without the catch-all rule
IngressRules_NoCatchAll(publicHostname, serviceUrl) ==
  << [hostname |-> publicHostname, service |-> serviceUrl] >>

\* the ingress body of configureTunnelIngress: one hostname rule, then the catch-all
IngressRules(publicHostname, serviceUrl) ==
  << [hostname |-> publicHostname, service |-> serviceUrl],
     [hostname |-> <<>>, service |-> "http_status:404"] >>

\* faulty variant: the DNS step always creates a record
DnsWriteFor_AlwaysCreate(existingRecord) == "createDnsRecord"

\* `if (existingRecord) updateDnsRecord(...) else createDnsRecord(...)`
DnsWriteFor(existingRecord) ==
  IF existingRecord # NoRecord THEN "updateDnsRecord" ELSE "createDnsRecord"

\* the request each step puts on the wire (method, path and body)
RequestFor(step) ==
  CASE step = "validateToken" ->
         Req("validateToken", "GET", 0, "", 0, <<>>, <<0, "">>)
    [] step = "getAccounts" ->
         Req("getAccounts", "GET", 0, "", 0, <<>>, <<0, "">>)
    [] step = "getAccountIdZones" ->
         Req("getAccountIdZones", "GET", 0, "", 0, <<>>, <<0, "">>)
    [] step = "listZones" ->
         Req("listZones", "GET", 0, "", 0, <<>>, <<0, "">>)
    [] step = "findDnsRecord" ->
         Req("findDnsRecord", "GET", 0, loc.selectedZone.id, 0, loc.fullHostname, <<0, "">>)
    [] step = "createTunnel" ->
         Req("createTunnel", "POST", 0, "", 0, <<>>, <<0, "">>)
    [] step = "configureTunnelIngress" ->
         Req("configureTunnelIngress", "PUT", loc.tunnel.id, "", 0, loc.fullHostname, <<0, "">>)
    [] step = "getTunnelToken" ->
         Req("getTunnelToken", "GET", loc.tunnel.id, "", 0, <<>>, <<0, "">>)
    [] step = "dnsRecord" ->
         IF DnsWriteFor(loc.existingRecord) = "updateDnsRecord"
           THEN Req("updateDnsRecord", "PUT", 0, loc.selectedZone.id, loc.existingRecord.id,
                    loc.subdomain, cnameTarget(loc.tunnel.id))
           ELSE Req("createDnsRecord", "POST", 0, loc.selectedZone.id, 0,
                    loc.subdomain, cnameTarget(loc.tunnel.id))
    [] step = "deleteTunnel" ->
         Req("deleteTunnel", "DELETE", loc.tunnel.id, "", 0, <<>>, <<0, "">>)

\* request(): `await fetch(...)`; the caller is suspended until the answer
Issue ==
  /\ pc \in RemoteSteps
  /\ inflight = {}
  /\ inflight' = {RequestFor(pc)}
  /\ calls' = Append(calls, RequestFor(pc))
  /\ UNCHANGED <<pc, exit, options, localOps, stepsOk, failedAt, accountId, loc,
                 remoteVars, hostVars, runs>>
  /\ UNCHANGED auxVars

\* the answer to the request in flight has arrived
Answered(step) ==
  /\ pc = step
  /\ inflight # {}
  /\ inflight' = {}

\* an exception that no try/catch of install() handles
Uncaught ==
  /\ pc' = "exited"
  /\ exit' = "uncaught"

\* faulty variant: any success envelope counts as a valid token
tokenValid_AnyStatus(outcome, status) == ~RequestThrows(outcome)

\* validateToken(): true only for a success envelope with status "active"
tokenValid(outcome, status) == ~RequestThrows(outcome) /\ status = "active"

\* FR-1.2: validate token; new CloudflareService(apiToken) has an empty cache
ValidateTokenDone ==
  /\ Answered("validateToken")
  /\ \E outcome \in Outcomes, status \in TokenStatuses :
       /\ LET l == [loc EXCEPT !.tokenStatus = IF RequestThrows(outcome) THEN outcome
                                                ELSE status]
          IN loc' = IF ~(~RequestThrows(outcome) /\ status = "active")
                      THEN Failed(l, "validateToken") ELSE l
       /\ IF ~tokenValid(outcome, status)
            THEN /\ Exit("exit1")
                 /\ UNCHANGED stepsOk
            ELSE /\ pc' = IF accountId # "" THEN "listZones" ELSE "getAccounts"
                 /\ stepsOk' = stepsOk \cup {"validateToken"}
                 /\ UNCHANGED exit
  /\ UNCHANGED <<options, calls, localOps, failedAt, accountId,
                 remoteVars, hostVars, runs>>
  /\ UNCHANGED auxVars

\* getAccountId(): GET /accounts first
GetAccountsDone ==
  /\ Answered("getAccounts")
  /\ \E outcome \in Outcomes, result \in AccountLists :
       IF ~RequestThrows(outcome) /\ Len(result) > 0
         THEN /\ accountId' = result[1]
              /\ stepsOk' = stepsOk \cup {"getAccountId"}
              /\ pc' = "listZones"
         ELSE /\ pc' = "getAccountIdZones"
              /\ UNCHANGED <<accountId, stepsOk>>
  /\ UNCHANGED <<exit, options, calls, localOps, failedAt, loc, remoteVars, hostVars, runs>>
  /\ UNCHANGED auxVars

\* getAccountId(): fall back to the account of the first zone; the call at
\* install.ts:244 is outside any try/catch
GetAccountIdZonesDone ==
  /\ Answered("getAccountIdZones")
  /\ \E outcome \in Outcomes, zones \in ZoneLists :
       IF ~RequestThrows(outcome) /\ Len(zones) > 0 /\ zones[1].account # ""
         THEN /\ accountId' = zones[1].account
              /\ stepsOk' = stepsOk \cup {"getAccountId"}
              /\ pc' = "listZones"
              /\ UNCHANGED <<exit, loc>>
         ELSE /\ Uncaught
              /\ loc' = Failed(loc, "getAccountId")
              /\ UNCHANGED <<accountId, stepsOk>>
  /\ UNCHANGED <<options, calls, localOps, failedAt, remoteVars, hostVars, runs>>
  /\ UNCHANGED auxVars

\* remote: a zone of the account that is not active
ZonePending == [id |-> "z3", name |-> <<"p", ".", "c">>, status |-> "pending", account |-> "acc1"]

\* remote: the zones the token can see, whatever their status
AccountZones == ZoneLists \cup { <<ZonePending>>, <<ZonePending, Zone1>> }

\* remote: GET /zones?status=s answers the zones with that status, GET /zones all
ZonesWithStatus(all, s) == SelectSeq(all, LAMBDA z : s = "" \/ z.status = s)

\* faulty variant: the zones are listed without a status filter
ListZonesStatus_Any == ""

\* listZones(): `GET /zones?status=active`
ListZonesStatus == "active"

\* FR-2.2: list zones; a failure or an empty list ends the run
ListZonesDone ==
  /\ Answered("listZones")
  /\ \E outcome \in Outcomes, all \in AccountZones :
     LET zones == ZonesWithStatus(all, ListZonesStatus) IN
       IF RequestThrows(outcome) \/ Len(zones) = 0
         THEN /\ Exit("exit1")
              /\ loc' = Failed(loc, "listZones")
              /\ UNCHANGED stepsOk
         ELSE /\ loc' = [loc EXCEPT !.zones = zones]
              /\ stepsOk' = stepsOk \cup {"listZones"}
              /\ pc' = "selectZone"
              /\ UNCHANGED exit
  /\ UNCHANGED <<options, calls, localOps, failedAt, accountId, remoteVars, hostVars, runs>>
  /\ UNCHANGED auxVars

\* zones.find((z) => z.name === options.domain)
FindZone(zones, domain) ==
  IF \E i \in 1..Len(zones) : zones[i].name = domain
    THEN zones[CHOOSE i \in 1..Len(zones) :
                 /\ zones[i].name = domain
                 /\ \A j \in 1..(i - 1) : zones[j].name # domain]
    ELSE NoZone

\* FR-2.3 / FR-2.4: --domain match or interactive choice
SelectZone ==
  /\ pc = "selectZone"
  /\ IF options.domain # <<>>
       THEN IF FindZone(loc.zones, options.domain) = NoZone
              THEN /\ Exit("exit1")
                   /\ loc' = Failed(loc, "selectZone")
                   /\ UNCHANGED stepsOk
              ELSE /\ loc' = [loc EXCEPT !.selectedZone = FindZone(loc.zones, options.domain)]
                   /\ stepsOk' = stepsOk \cup {"selectZone"}
                   /\ pc' = "subdomain"
                   /\ UNCHANGED exit
       ELSE \E i \in 1..Len(loc.zones) :
              /\ loc' = [loc EXCEPT !.selectedZone = loc.zones[i]]
              /\ stepsOk' = stepsOk \cup {"selectZone"}
              /\ pc' = "subdomain"
              /\ UNCHANGED exit
  /\ UNCHANGED <<options, inflight, calls, localOps, failedAt, accountId,
                 remoteVars, hostVars, runs>>
  /\ UNCHANGED auxVars

\* the value the prompt's validate callback lets through
PromptAccepts(value) == isValidSubdomain(value)

\* FR-5.4 / FR-5.5: subdomain from the flag, or from the validated prompt
GetSubdomain ==
  /\ pc = "subdomain"
  /\ \E typed \in SubdomainInputs :
       /\ options.subdomain = <<>> => PromptAccepts(typed)
       /\ LET subdomain == IF options.subdomain # <<>> THEN options.subdomain ELSE typed
          IN loc' = [loc EXCEPT !.subdomain = subdomain,
                                !.fullHostname = fullHostnameOf(subdomain, loc.selectedZone)]
  /\ pc' = "findDnsRecord"
  /\ UNCHANGED <<exit, options, inflight, calls, localOps, stepsOk, failedAt, accountId,
                 remoteVars, hostVars, runs>>
  /\ UNCHANGED auxVars


\* remote: the CNAME records GET /zones/{zone}/dns_records?type=CNAME&name=... returns
MatchingRecords(zoneId, name) ==
  {r \in dnsRecords : r.zoneId = zoneId /\ r.name = name}

\* FR-5.3: look for an existing record; install.ts:311 is outside any try/catch
FindDnsRecordDone ==
  /\ Answered("findDnsRecord")
  /\ \E outcome \in Outcomes, req \in inflight :
       IF RequestThrows(outcome)
         THEN /\ Uncaught
              /\ loc' = Failed(loc, "findDnsRecord")
              /\ UNCHANGED stepsOk
         ELSE /\ stepsOk' = stepsOk \cup {"findDnsRecord"}
              /\ UNCHANGED exit
              /\ IF MatchingRecords(req.zoneId, req.hostname) # {}
                   THEN /\ \E r \in MatchingRecords(req.zoneId, req.hostname) :
                             loc' = [loc EXCEPT !.existingRecord = r]
                        /\ pc' = "confirm"
                   ELSE /\ pc' = "createTunnel"
                        /\ UNCHANGED loc
  /\ UNCHANGED <<options, calls, localOps, failedAt, accountId, remoteVars, hostVars, runs>>
  /\ UNCHANGED auxVars

\* faulty variant: the answer to the confirmation is ignored
AfterConfirm_Ignored(shouldUpdate) == "createTunnel"

\* where the run goes after the overwrite confirmation was answered
AfterConfirm(shouldUpdate) == IF ~shouldUpdate THEN "exit0" ELSE "createTunnel"

\* the overwrite confirmation for an existing record
ConfirmUpdate ==
  /\ pc = "confirm"
  /\ \E shouldUpdate \in BOOLEAN :
       /\ loc' = [loc EXCEPT !.asked = TRUE, !.shouldUpdate = shouldUpdate]
       /\ IF AfterConfirm(shouldUpdate) = "exit0"
            THEN Exit("exit0")
            ELSE /\ pc' = AfterConfirm(shouldUpdate)
                 /\ UNCHANGED exit
  /\ UNCHANGED <<options, inflight, calls, localOps, stepsOk, failedAt, accountId,
                 remoteVars, hostVars, runs>>
  /\ UNCHANGED auxVars

\* faulty variant: the DNS catch block exits without deleting the tunnel
OnStepFailure_NoDnsCleanup(step) ==
  IF step \in {"createTunnel", "dnsRecord"} THEN "exit1" ELSE "deleteTunnel"

\* faulty variant: a failed step returns null to install() instead of exiting
OnStepFailure_ReturnNull(step) ==
  IF step = "createTunnel" THEN "exit1" ELSE "config"

\* faulty variant: a failed tunnel creation is tried again
OnStepFailure_Retry(step) ==
  IF step = "createTunnel" THEN "createTunnel" ELSE "deleteTunnel"

\* what the catch block of a failed step does next: createTunnel's catch
\* exits; the later ones first delete the tunnel created in this run
OnStepFailure(step) ==
  IF step = "createTunnel" THEN "exit1" ELSE "deleteTunnel"

\* a provisioning step failed inside its try block
StepFailed(step) ==
  /\ failedAt' = step
  /\ IF OnStepFailure(step) = "exit1"
       THEN Exit("exit1")
       ELSE /\ pc' = OnStepFailure(step)
            /\ UNCHANGED exit

\* FR-3.1: create the tunnel
CreateTunnelDone ==
  /\ Answered("createTunnel")
  /\ \E outcome \in Outcomes, suffix \in Suffixes :
       IF RequestThrows(outcome)
         THEN /\ StepFailed("createTunnel")
              /\ UNCHANGED <<loc, stepsOk, tunnels, nextId>>
         ELSE LET t == [id |-> nextId, name |-> generateTunnelName(suffix)]
              IN /\ tunnels' = tunnels \cup {t}
                 /\ nextId' = nextId + 1
                 /\ loc' = [loc EXCEPT !.tunnel = t]
                 /\ stepsOk' = stepsOk \cup {"createTunnel"}
                 /\ pc' = "configureTunnelIngress"
                 /\ UNCHANGED <<exit, failedAt>>
  /\ UNCHANGED <<options, calls, localOps, accountId, ingress, dnsRecords, hostVars, runs>>
  /\ UNCHANGED auxVars

\* FR-4: configure ingress
ConfigureTunnelIngressDone ==
  /\ Answered("configureTunnelIngress")
  /\ \E outcome \in Outcomes, req \in inflight :
       IF RequestThrows(outcome)
         THEN /\ StepFailed("configureTunnelIngress")
              /\ UNCHANGED <<stepsOk, ingress>>
         ELSE /\ ingress' = {g \in ingress : g.tunnelId # req.tunnelId} \cup
                            {[tunnelId |-> req.tunnelId,
                              rules |-> IngressRules(req.hostname, "http://n8n:5678")]}
              /\ stepsOk' = stepsOk \cup {"configureTunnelIngress"}
              /\ pc' = "getTunnelToken"
              /\ UNCHANGED <<exit, failedAt>>
  /\ UNCHANGED <<options, calls, localOps, accountId, loc, tunnels, dnsRecords, nextId,
                 hostVars, runs>>
  /\ UNCHANGED auxVars

\* FR-3.4: fetch the tunnel token
GetTunnelTokenDone ==
  /\ Answered("getTunnelToken")
  /\ \E outcome \in Outcomes, req \in inflight :
       IF RequestThrows(outcome)
         THEN /\ StepFailed("getTunnelToken")
              /\ UNCHANGED <<loc, stepsOk>>
         ELSE /\ loc' = [loc EXCEPT !.tunnelToken = <<"token", req.tunnelId>>]
              /\ stepsOk' = stepsOk \cup {"getTunnelToken"}
              /\ pc' = "dnsRecord"
              /\ UNCHANGED <<exit, failedAt>>
  /\ UNCHANGED <<options, calls, localOps, accountId, remoteVars, hostVars, runs>>
  /\ UNCHANGED auxVars

\* remote: the name a record gets, relative names are completed with the zone name
RecordName(zoneId, name) ==
  IF zoneId = Zone1.id THEN name \o <<".">> \o Zone1.name
  ELSE name \o <<".">> \o Zone2.name

\* faulty variant: the update branch leaves dnsRecordId unset
DnsRecordIdOf_CreatedOnly(existingRecord, created) ==
  IF existingRecord # NoRecord THEN 0 ELSE created.id

\* the dnsRecordId setupCloudflareTunnel keeps after the DNS step
DnsRecordIdOf(existingRecord, created) ==
  IF existingRecord # NoRecord THEN existingRecord.id ELSE created.id

\* the TunnelConfig setupCloudflareTunnel returns
TunnelConfigOf(account, l, dnsRecordId) ==
  [apiToken |-> "token", accountId |-> account, zoneId |-> l.selectedZone.id,
   zoneName |-> l.selectedZone.name, tunnelId |-> l.tunnel.id,
   tunnelName |-> l.tunnel.name, tunnelToken |-> l.tunnelToken,
   hostname |-> l.fullHostname, dnsRecordId |-> dnsRecordId]

\* FR-5.1 / FR-5.2: create or update the DNS record, then return the config
DnsRecordDone ==
  /\ Answered("dnsRecord")
  /\ \E outcome \in Outcomes, req \in inflight :
       IF RequestThrows(outcome)
         THEN /\ StepFailed("dnsRecord")
              /\ UNCHANGED <<loc, stepsOk, dnsRecords, nextId>>
         ELSE LET written ==
                    [id |-> IF req.op = "updateDnsRecord" THEN req.recordId ELSE nextId,
                     zoneId |-> req.zoneId,
                     name |-> RecordName(req.zoneId, req.hostname),
                     content |-> req.content]
                  id == DnsRecordIdOf(loc.existingRecord, written)
              IN /\ dnsRecords' = {r \in dnsRecords : r.id # written.id} \cup {written}
                 /\ nextId' = IF req.op = "updateDnsRecord" THEN nextId ELSE nextId + 1
                 /\ loc' = [loc EXCEPT !.dnsRecordId = id,
                                       !.tunnelConfig = TunnelConfigOf(accountId, loc, id)]
                 /\ stepsOk' = stepsOk \cup {"dnsRecord"}
                 /\ pc' = "config"
                 /\ UNCHANGED <<exit, failedAt>>
  /\ UNCHANGED <<options, calls, localOps, accountId, tunnels, ingress, hostVars, runs>>
  /\ UNCHANGED auxVars

\* `await cloudflare.deleteTunnel(tunnel.id).catch(() => {}); process.exit(1)`
DeleteTunnelDone ==
  /\ Answered("deleteTunnel")
  /\ \E outcome \in Outcomes, req \in inflight :
       IF RequestThrows(outcome)
         THEN UNCHANGED <<tunnels, ingress>>
         ELSE /\ tunnels' = {t \in tunnels : t.id # req.tunnelId}
              /\ ingress' = {g \in ingress : g.tunnelId # req.tunnelId}
  /\ Exit("exit1")
  /\ UNCHANGED <<options, calls, localOps, stepsOk, failedAt, accountId, loc,
                 dnsRecords, nextId, hostVars, runs>>
  /\ UNCHANGED auxVars


\* ------------------------------------------------------------------
\* install(): steps 6-8 and the success summary
\* ------------------------------------------------------------------
\* which pair of writers step 6 calls: the tunnel pair iff tunnelConfig is set
ConfigKind(tunnelConfig) == IF tunnelConfig # NoConfig THEN "tunnel" ELSE "plain"

\* step 6: write the compose file, then the env file; either write may throw
GenerateConfig ==
  /\ pc = "config"
  /\ LET kind == ConfigKind(loc.tunnelConfig)
         composeOp == IF kind = "tunnel" THEN "copyDockerComposeWithTunnel"
                                         ELSE "copyDockerCompose"
         envOp == IF kind = "tunnel" THEN "createTunnelEnvFile" ELSE "createEnvFile"
     IN \E thrower \in {"none", "compose", "env"} :
          CASE thrower = "compose" ->
                 /\ localOps' = Append(localOps, composeOp)
                 /\ Exit("exit1")
                 /\ loc' = Failed(loc, "config")
                 /\ UNCHANGED files
            [] thrower = "env" ->
                 /\ localOps' = localOps \o <<composeOp, envOp>>
                 /\ files' = [files EXCEPT !.compose = kind]
                 /\ Exit("exit1")
                 /\ loc' = Failed(loc, "config")
            [] thrower = "none" ->
                 /\ localOps' = localOps \o <<composeOp, envOp>>
                 /\ files' = [compose |-> kind, env |-> kind,
                              tunnelEnv |-> loc.tunnelConfig]
                 /\ pc' = "composeUp"
                 /\ UNCHANGED <<exit, loc>>
  /\ UNCHANGED <<options, inflight, calls, stepsOk, failedAt, accountId,
                 remoteVars, containers, runs>>
  /\ UNCHANGED auxVars

\* step 7: composeUp, with the tunnel profile iff tunnelConfig is set
ComposeUp ==
  /\ pc = "composeUp"
  /\ localOps' = Append(localOps, "composeUp")
  /\ \E started \in BOOLEAN :
       IF started
         THEN /\ containers' = ConfigKind(loc.tunnelConfig)
              /\ pc' = "waitForHealthy"
              /\ UNCHANGED <<exit, loc>>
         ELSE /\ Exit("exit1")
              /\ loc' = Failed(loc, "composeUp")
              /\ UNCHANGED containers
  /\ UNCHANGED <<options, inflight, calls, stepsOk, failedAt, accountId,
                 remoteVars, files, runs>>
  /\ UNCHANGED auxVars

\* faulty variant: a health timeout is only warned about
HealthTimeoutExits_Never(healthy) == FALSE

\* `if (!healthy) { ...; process.exit(1) }`
HealthTimeoutExits(healthy) == ~healthy

\* step 8: waitForHealthy(120000, 2000), then printSuccess and return
WaitForHealthy ==
  /\ pc = "waitForHealthy"
  /\ \E healthy \in BOOLEAN :
       /\ loc' = IF healthy THEN loc ELSE Failed(loc, "waitForHealthy")
       /\ IF HealthTimeoutExits(healthy)
            THEN /\ Exit("exit1")
                 /\ UNCHANGED localOps
            ELSE /\ localOps' = Append(localOps, "printSuccess")
                 /\ pc' = "exited"
                 /\ exit' = "returned"
  /\ UNCHANGED <<options, inflight, calls, stepsOk, failedAt, accountId,
                 remoteVars, hostVars, runs>>
  /\ UNCHANGED auxVars

Next ==
  \/ StartRun
  \/ EnsureRuntime
  \/ CheckInstalled
  \/ CheckPort
  \/ PullImage
  \/ Issue
  \/ ValidateTokenDone
  \/ GetAccountsDone
  \/ GetAccountIdZonesDone
  \/ ListZonesDone
  \/ SelectZone
  \/ GetSubdomain
  \/ FindDnsRecordDone
  \/ ConfirmUpdate
  \/ CreateTunnelDone
  \/ ConfigureTunnelIngressDone
  \/ GetTunnelTokenDone
  \/ DnsRecordDone
  \/ DeleteTunnelDone
  \/ GenerateConfig
  \/ ComposeUp
  \/ WaitForHealthy

Spec == Init /\ [][Next]_vars


\* ------------------------------------------------------------------
\* CloudflareService, call by call (SpecClient)
\* ------------------------------------------------------------------
\* longest errors[] array of a rejection envelope
MaxErrors == 2
\* method calls made on service instances
MaxCalls == 3

\* errors[i].message of a rejection envelope
ErrorMessage(i) == <<"e1", "e2", "e3", "e4">>[i]
ErrorLists == {[i \in 1..k |-> ErrorMessage(i)] : k \in 0..MaxErrors}

\* what fetch() + response.json() can produce: a rejected fetch (net), an
\* envelope with success=false and its errors, or success=true and a result
Envelopes(results, none) ==
  {[net |-> TRUE, success |-> FALSE, errors |-> <<>>, result |-> none]}
    \cup {[net |-> FALSE, success |-> FALSE, errors |-> e, result |-> none] : e \in ErrorLists}
    \cup {[net |-> FALSE, success |-> TRUE, errors |-> <<>>, result |-> r] : r \in results}

\* GET /accounts results; the listing may differ between two lookups
AccountListings == AccountLists \cup {<<"acc2">>}

\* methods that start with `await this.getAccountId()`
AccountMethods == {"createTunnel", "configureTunnelIngress", "getTunnelToken",
                   "deleteTunnel", "listTunnels"}
\* methods that address a zone and need no account id
ZoneMethods == {"createDnsRecord", "findDnsRecord", "updateDnsRecord", "deleteDnsRecord"}
Methods == {"validateToken", "getAccountId", "listZones"} \cup AccountMethods \cup ZoneMethods

\* response.result of each method's own request
ResultsOf(method) ==
  CASE method = "validateToken" -> TokenStatuses
    [] method = "listZones" -> ZoneLists
    [] method = "listTunnels" -> {<<>>, <<"t1">>}
    [] method = "findDnsRecord" -> {<<>>, <<"r1">>}
    [] method = "createTunnel" -> {"t1"}
    [] method = "getTunnelToken" -> {"tok"}
    [] method = "createDnsRecord" -> {"r1"}
    [] OTHER -> {<<>>}

\* the result field of an envelope that carries no result
NoResultOf(method) ==
  IF method \in {"validateToken", "createTunnel", "getTunnelToken", "createDnsRecord"}
    THEN "" ELSE <<>>

\* Array.prototype.join
RECURSIVE join(_, _)
join(parts, sep) ==
  IF parts = <<>> THEN <<>>
  ELSE IF Len(parts) = 1 THEN <<parts[1]>>
  ELSE <<parts[1], sep>> \o join(Tail(parts), sep)

\* faulty variant: the envelope is returned whatever its success flag says
request_IgnoreSuccess(resp) ==
  IF resp.net THEN Throw("TypeError", <<"fetch failed">>) ELSE Return(resp)

\* request(): a rejected fetch propagates as it is; success=false throws
\* Error("Cloudflare API error: " + messages joined by ", "); else the envelope
request(resp) ==
  IF resp.net THEN Throw("TypeError", <<"fetch failed">>)
  ELSE IF ~resp.success
    THEN Throw("Error", <<"Cloudflare API error: ">> \o join(resp.errors, ", "))
  ELSE Return(resp)

\* faulty variant: the cached id is never used
CacheHit_Never(cache) == FALSE

\* `if (this.accountId) return this.accountId`
CacheHit(cache) == cache # ""

\* faulty variant: the zones fallback never yields an id
ZoneAccount_None(zones) == ""

\* `zones.length > 0 && zones[0].account?.id`: the id the fallback reads, "" if none
ZoneAccount(zones) ==
  IF Len(zones) > 0 THEN zones[1].account ELSE ""

\* what each method makes of request()'s outcome for its own request
MethodResult(method, out) ==
  CASE method = "validateToken" ->
         IF out.kind = "return" THEN Return(out.data.result = "active") ELSE Return(FALSE)
    [] method = "findDnsRecord" /\ out.kind = "return" ->
         Return(IF Len(out.data.result) > 0 THEN out.data.result[1] ELSE "null")
    [] method \in {"configureTunnelIngress", "updateDnsRecord", "deleteDnsRecord",
                   "deleteTunnel"} /\ out.kind = "return" -> Return(<<>>)
    [] OTHER -> IF out.kind = "return" THEN Return(out.data.result) ELSE out

\* one request as request() sends it
Sent(op, account) == [op |-> op, account |-> account]
\* one answer as request() turned it into an outcome
Logged(op, resp, out) == [op |-> op, resp |-> resp, out |-> out]

\* getAccountId() returned id: the calling method goes on to its own request
AfterResolved(s, id) ==
  [s EXCEPT
     !.accountId = id,
     !.acct = Return(id),
     !.firstId = IF s.firstId = "" THEN id ELSE s.firstId,
     !.pc = IF s.method = "getAccountId" THEN "done" ELSE "own",
     !.result = IF s.method = "getAccountId" THEN Return(id) ELSE s.result,
     !.sent = IF s.method = "getAccountId" THEN s.sent
              ELSE Append(s.sent, Sent(s.method, id))]

\* getAccountId() sends a lookup request (GET /accounts, or GET /zones)
Lookup(s, which) ==
  [s EXCEPT
     !.pc = which,
     !.sent = Append(s.sent, Sent(which, "")),
     !.lookupsAfter = s.lookupsAfter + (IF s.firstId # "" THEN 1 ELSE 0)]

\* getAccountId() found no id anywhere
CouldNotDetermine ==
  Throw("Error", <<"Could not determine Cloudflare account ID">>)

\* a caller invokes one method of the service
CallMethod ==
  /\ svc.pc \in {"idle", "done"}
  /\ svc.n < MaxCalls
  /\ \E m \in Methods :
       LET s0 == [svc EXCEPT !.n = svc.n + 1, !.method = m, !.sent = <<>>, !.log = <<>>,
                             !.acct = NoOutcome, !.result = NoOutcome]
       IN svc' = IF m \in AccountMethods \cup {"getAccountId"}
                   THEN IF CacheHit(s0.accountId)
                          THEN AfterResolved(s0, s0.accountId)
                          ELSE Lookup(s0, "accounts")
                   ELSE [s0 EXCEPT !.pc = "own", !.sent = <<Sent(m, "")>>]
  /\ UNCHANGED clientFrame

\* getAccountId(): GET /accounts answered
AccountsAnswered ==
  /\ svc.pc = "accounts"
  /\ \E resp \in Envelopes(AccountListings, <<>>) :
       LET out == request(resp)
           s1 == [svc EXCEPT !.log = Append(svc.log, Logged("accounts", resp, out))]
       IN svc' = IF out.kind = "return" /\ Len(out.data.result) > 0
                   THEN AfterResolved(s1, out.data.result[1])
                   ELSE Lookup(s1, "zones")
  /\ UNCHANGED clientFrame

\* getAccountId(): the fallback `await this.listZones()` answered
ZonesAnswered ==
  /\ svc.pc = "zones"
  /\ \E resp \in Envelopes(ZoneLists, <<>>) :
       LET out == request(resp)
           s1 == [svc EXCEPT !.log = Append(svc.log, Logged("zones", resp, out))]
       IN svc' = IF out.kind = "throw"
                   THEN [s1 EXCEPT !.acct = out, !.result = out, !.pc = "done"]
                 ELSE IF ZoneAccount(out.data.result) # ""
                   THEN AfterResolved(s1, ZoneAccount(out.data.result))
                 ELSE [s1 EXCEPT !.acct = CouldNotDetermine, !.result = CouldNotDetermine,
                                 !.pc = "done"]
  /\ UNCHANGED clientFrame

\* the method's own request answered: the method returns or throws
OwnAnswered ==
  /\ svc.pc = "own"
  /\ \E resp \in Envelopes(ResultsOf(svc.method), NoResultOf(svc.method)) :
       LET out == request(resp)
       IN svc' = [svc EXCEPT !.log = Append(svc.log, Logged(svc.method, resp, out)),
                             !.result = MethodResult(svc.method, out),
                             !.pc = "done"]
  /\ UNCHANGED clientFrame

\* `new CloudflareService(apiToken)`: a fresh instance with an empty cache
NewService ==
  /\ svc.pc = "done"
  /\ svc.n < MaxCalls
  /\ svc' = [InitSvc EXCEPT !.n = svc.n]
  /\ UNCHANGED clientFrame

NextClient ==
  \/ CallMethod
  \/ AccountsAnswered
  \/ ZonesAnswered
  \/ OwnAnswered
  \/ NewService

SpecClient == Init /\ [][NextClient]_vars


\* ------------------------------------------------------------------
\* ensureRuntime(), the readiness gate (SpecGate)
\* ------------------------------------------------------------------
STARTUP_TIMEOUT_MS == 60000
POLL_INTERVAL_MS == 2000

\* engines that can answer `docker info`: "other" is a daemon that is neither
\* OrbStack nor Docker Desktop (its OperatingSystem string names neither)
Engines == {"none", "orbstack", "docker-desktop", "other"}

\* hosts ensureRuntime() can start on: a running engine is installed, and an
\* installed runtime or a running engine comes with the docker CLI
Hosts ==
  {h \in [orbstack : BOOLEAN, dockerApp : BOOLEAN, dockerCli : BOOLEAN, homebrew : BOOLEAN,
          engine : Engines, starting : {""}] :
     /\ h.engine = "orbstack" => h.orbstack
     /\ h.engine = "docker-desktop" => h.dockerApp
     /\ (h.orbstack \/ h.dockerApp \/ h.engine # "none") => h.dockerCli}

\* runWithTimeout() resolves null when the command outlives COMMAND_TIMEOUT_MS
Timeout == "null"
WhichAnswers(present) == {IF present THEN "found" ELSE "missing", Timeout}
OrbStatusAnswers(h) == {IF h.engine = "orbstack" THEN "running" ELSE "stopped", Timeout}
\* `docker info --format '{{.OperatingSystem}}'`: the engine's name, or an error exit
DockerInfoAnswers(h) ==
  {IF h.dockerCli /\ h.engine # "none" THEN h.engine ELSE "error", Timeout}

\* the answers one detectRuntime() can get from host h
Probes(h) ==
  [whichOrb : WhichAnswers(h.orbstack),
   orbStatus : OrbStatusAnswers(h),
   orbInfo : DockerInfoAnswers(h),
   whichDocker : WhichAnswers(h.dockerCli),
   dockerInfo : DockerInfoAnswers(h),
   whichBrew : WhichAnswers(h.homebrew)]

detectOrbStack(h, p) ==
  LET installed == h.orbstack \/ p.whichOrb = "found"
  IN [installed |-> installed,
      running |-> installed /\ (p.orbStatus = "running" \/ p.orbInfo = "orbstack")]

detectDockerDesktop(h, p) ==
  LET installed == h.dockerApp \/ p.whichDocker = "found"
  IN [installed |-> installed,
      running |-> installed /\ p.dockerInfo = "docker-desktop"]

detectHomebrew(p) == [installed |-> p.whichBrew = "found"]

detectRuntime(h, p) ==
  LET orbstack == detectOrbStack(h, p)
      docker == detectDockerDesktop(h, p)
  IN [orbstack |-> orbstack,
      docker |-> docker,
      homebrew |-> detectHomebrew(p),
      ready |-> orbstack.running \/ docker.running,
      activeRuntime |-> IF orbstack.running THEN "orbstack"
                        ELSE IF docker.running THEN "docker-desktop" ELSE ""]

\* a `docker info` of this detection exited 0
DockerInfoOk(h, p) ==
  LET installedOrb == detectOrbStack(h, p).installed
      installedDocker == detectDockerDesktop(h, p).installed
  IN \/ installedOrb /\ p.orbStatus # "running" /\ p.orbInfo \notin {"error", Timeout}
     \/ installedDocker /\ p.dockerInfo \notin {"error", Timeout}

\* ensureRuntime() returns status st
Returned(g, st) ==
  [g EXCEPT !.pc = "returned", !.result = "returned", !.status = st, !.elapsed = 0]

\* ensureRuntime() throws new Error(message)
Threw(g, message) ==
  [g EXCEPT !.pc = "threw", !.result = "threw", !.error = message, !.elapsed = 0]

\* the calls ensureRuntime() can start from
GateStarts ==
  {[InitGate EXCEPT !.pc = "enter", !.ci = c, !.autoInstall = a, !.preferredRuntime = r,
                    !.prompt = q, !.host = h] :
     c \in BOOLEAN, a \in BOOLEAN, r \in {"orbstack", "docker"},
     q \in {"none", "yes", "no"}, h \in Hosts}

InitOfGate ==
  /\ InstallInit
  /\ svc = InitSvc
  /\ poll = InitPoll
  /\ un = InitUn
  /\ sub = InitSub
  /\ det = InitDet
  /\ rwt = InitRwt
  /\ gate \in GateStarts

\* faulty variant: the CI variable is not looked at
CiMode_Ignored(ci) == FALSE

\* `if (process.env.CI)`
CiMode(ci) == ci

\* CI branch: detect once, return the status if ready, else throw
CiDetect ==
  /\ gate.pc = "enter"
  /\ CiMode(gate.ci)
  /\ \E p \in Probes(gate.host) :
       LET st == detectRuntime(gate.host, p)
       IN gate' = IF ~st.ready
                    THEN Threw([gate EXCEPT !.status = st, !.detected = st],
                               "No container runtime available in CI environment")
                    ELSE Returned([gate EXCEPT !.detected = st], st)
  /\ UNCHANGED gateFrame

\* faulty variant: Docker Desktop is tried before OrbStack
Remedy_DockerFirst(st) ==
  IF st.docker.installed /\ ~st.docker.running THEN "docker"
  ELSE IF st.orbstack.installed /\ ~st.orbstack.running THEN "orbstack"
  ELSE ""

\* the engine a status that is not ready makes ensureRuntime() start: OrbStack
\* if installed, else Docker Desktop if installed, else none
Remedy(st) ==
  IF st.orbstack.installed /\ ~st.orbstack.running THEN "orbstack"
  ELSE IF st.docker.installed /\ ~st.docker.running THEN "docker"
  ELSE ""

\* the first detectRuntime() and the choice of remediation
Detect ==
  /\ gate.pc = "enter"
  /\ ~CiMode(gate.ci)
  /\ \E p \in Probes(gate.host) :
       LET st == detectRuntime(gate.host, p)
           g == [gate EXCEPT !.status = st,
                             !.detected = st,
                             !.firstInfoOk = DockerInfoOk(gate.host, p),
                             !.firstReady = st.ready]
       IN gate' = IF st.ready THEN Returned(g, st)
                  ELSE IF Remedy(st) = "orbstack"
                    THEN [g EXCEPT !.pc = "startOrb", !.remedy = "orbstack"]
                  ELSE IF Remedy(st) = "docker"
                    THEN [g EXCEPT !.pc = "startDocker", !.remedy = "docker"]
                  ELSE [g EXCEPT !.pc = "offer"]
  /\ UNCHANGED gateFrame

\* startOrbStack(): `orb start`, else `open -a OrbStack`, else throw
StartOrbStack ==
  /\ gate.pc = "startOrb"
  /\ \E how \in {"cli", "app", "failed"} :
       LET issued == IF how = "cli" THEN <<"orb start">>
                     ELSE <<"orb start", "open -a OrbStack">>
           g == [gate EXCEPT !.cmds = gate.cmds \o issued]
       IN gate' = IF how = "failed"
                    THEN Threw(g, "Failed to start OrbStack. Please start it manually.")
                    ELSE [g EXCEPT !.pc = "wait", !.elapsed = 0,
                                   !.host = [gate.host EXCEPT !.starting = "orbstack"]]
  /\ UNCHANGED gateFrame

\* startDockerDesktop(): `open -a Docker`, else throw
StartDockerDesktop ==
  /\ gate.pc = "startDocker"
  /\ \E opened \in {b \in BOOLEAN : b => gate.host.dockerApp} :
       LET g == [gate EXCEPT !.cmds = Append(gate.cmds, "open -a Docker")]
       IN gate' = IF ~opened
                    THEN Threw(g, "Failed to start Docker Desktop. Please start it manually.")
                    ELSE [g EXCEPT !.pc = "wait", !.elapsed = 0,
                                   !.host = [gate.host EXCEPT !.starting = "docker-desktop"]]
  /\ UNCHANGED gateFrame

\* faulty variant: OrbStack is installed without asking
ShouldInstall_Always(autoInstall, prompt) == TRUE

\* `autoInstall || (onPrompt && (await onPrompt("Install OrbStack via Homebrew?")))`
ShouldInstall(autoInstall, prompt) == autoInstall \/ prompt = "yes"

\* nothing installed: install OrbStack if preferred and accepted, else give up
OfferInstall ==
  /\ gate.pc = "offer"
  /\ LET asked == ~gate.autoInstall /\ gate.prompt # "none"
         shouldInstall == ShouldInstall(gate.autoInstall, gate.prompt)
         g == IF gate.preferredRuntime = "orbstack" /\ asked
                THEN [gate EXCEPT !.cmds = Append(gate.cmds, "prompt")] ELSE gate
     IN gate' = IF gate.preferredRuntime = "orbstack" /\ shouldInstall
                  THEN [g EXCEPT !.pc = "install"]
                  ELSE Threw(g, "No container runtime available.")
  /\ UNCHANGED gateFrame

\* installOrbStack(): needs Homebrew, then `brew install orbstack`
InstallOrbStack ==
  /\ gate.pc = "install"
  /\ \E p \in Probes(gate.host), installed \in BOOLEAN :
       LET st == detectRuntime(gate.host, p)
           g == [gate EXCEPT !.cmds = Append(gate.cmds, "brew install orbstack")]
       IN gate' = IF ~st.homebrew.installed
                    THEN Threw(gate, "Homebrew is not installed.")
                  ELSE IF ~installed
                    THEN Threw(g, "Failed to install OrbStack via Homebrew")
                  ELSE [g EXCEPT !.pc = "startOrb", !.remedy = "install",
                                 !.host = [gate.host EXCEPT !.orbstack = TRUE,
                                                            !.dockerCli = TRUE]]
  /\ UNCHANGED gateFrame

\* the message thrown when waitForReady() returned false
TimeoutMessage(remedy) ==
  CASE remedy = "orbstack" -> "OrbStack failed to start within timeout"
    [] remedy = "docker" -> "Docker Desktop failed to start within timeout"
    [] OTHER -> "OrbStack failed to start after installation"

\* faulty variant: after an OrbStack timeout the gate goes on to Docker Desktop
OnWaitTimeout_FallThrough(g) ==
  IF g.remedy = "docker" THEN Threw(g, TimeoutMessage(g.remedy))
  ELSE [g EXCEPT !.pc = "startDocker", !.remedy = "docker", !.elapsed = 0]

\* `if (await waitForReady(...)) {...} throw new Error("... failed to start ...")`
OnWaitTimeout(g) == Threw(g, TimeoutMessage(g.remedy))

\* waitForReady(): one turn of the loop: the deadline test, `docker info`, the sleep
WaitForReady ==
  /\ gate.pc = "wait"
  /\ IF ~(gate.elapsed < STARTUP_TIMEOUT_MS)
       THEN gate' = OnWaitTimeout(gate)
       ELSE \E answer \in {IF gate.host.dockerCli /\ gate.host.engine # "none"
                             THEN "exit0" ELSE "error", "never"} :
              gate' = CASE answer = "exit0" ->
                             [gate EXCEPT !.pc = "redetect", !.polled = TRUE, !.elapsed = 0]
                        [] answer = "error" ->
                             [gate EXCEPT !.polled = TRUE,
                                          !.elapsed = gate.elapsed + POLL_INTERVAL_MS]
                        [] OTHER -> [gate EXCEPT !.pc = "hung", !.polled = TRUE]
  /\ UNCHANGED gateFrame

\* `return detectRuntime()` after waitForReady() returned true
Redetect ==
  /\ gate.pc = "redetect"
  /\ \E p \in Probes(gate.host) :
       gate' = Returned(gate, detectRuntime(gate.host, p))
  /\ UNCHANGED gateFrame

\* the engine that was started comes up and answers from now on
EngineUp ==
  /\ gate.pc \in {"wait", "redetect"}
  /\ gate.host.starting # ""
  /\ gate.host.engine # gate.host.starting
  /\ gate' = [gate EXCEPT !.host = [gate.host EXCEPT !.engine = gate.host.starting]]
  /\ UNCHANGED gateFrame

NextGate ==
  \/ CiDetect
  \/ Detect
  \/ StartOrbStack
  \/ StartDockerDesktop
  \/ OfferInstall
  \/ InstallOrbStack
  \/ WaitForReady
  \/ Redetect
  \/ EngineUp

SpecGate == InitOfGate /\ [][NextGate]_vars


\* ------------------------------------------------------------------
\* waitForReady() and waitForHealthy(), the polling loops (SpecPoll)
\* ------------------------------------------------------------------
COMMAND_TIMEOUT_MS == 10000
HEALTH_TIMEOUT_MS == 120000
HEALTH_INTERVAL_MS == 2000

\* how long a probe that answers late takes
SlowProbeMs == 5000

\* time a probe takes to answer
ProbeTimes == {0, SlowProbeMs}

\* the two loops as install() and ensureRuntime() call them
PollStarts ==
  {[InitPoll EXCEPT !.loop = "waitForReady", !.pc = "head",
                    !.timeoutMs = STARTUP_TIMEOUT_MS, !.intervalMs = POLL_INTERVAL_MS],
   [InitPoll EXCEPT !.loop = "waitForHealthy", !.pc = "head",
                    !.timeoutMs = HEALTH_TIMEOUT_MS, !.intervalMs = HEALTH_INTERVAL_MS]}

InitOfPoll ==
  /\ InstallInit
  /\ svc = InitSvc
  /\ gate = InitGate
  /\ un = InitUn
  /\ sub = InitSub
  /\ det = InitDet
  /\ rwt = InitRwt
  /\ poll \in PollStarts

\* faulty variant: the body is entered once more when the deadline is reached
DeadlineOpen_Inclusive(now, timeoutMs) == now <= timeoutMs

\* `while (Date.now() - startTime < timeoutMs)`
DeadlineOpen(now, timeoutMs) == now < timeoutMs

\* the loop returns value
PollReturns(q, value) == [q EXCEPT !.pc = "done", !.result = value]

\* the loop test: enter the body and send the iteration's probe, or return false
LoopHead ==
  /\ poll.pc = "head"
  /\ poll' = IF DeadlineOpen(poll.now, poll.timeoutMs)
               THEN [poll EXCEPT !.pc = "probe",
                                 !.iterations = poll.iterations + 1,
                                 !.issuedAt = poll.now,
                                 !.probeAt = poll.now,
                                 !.probes = poll.probes + 1]
               ELSE PollReturns(poll, "false")
  /\ UNCHANGED pollFrame

\* waitForReady: `docker info` exits after d ms, with code 0 or not
DockerInfoAnswered ==
  /\ poll.pc = "probe"
  /\ poll.loop = "waitForReady"
  /\ \E d \in ProbeTimes, exit0 \in BOOLEAN :
       LET q == [poll EXCEPT !.now = poll.now + d,
                             !.succeededIn = IF exit0 THEN poll.iterations ELSE 0]
       IN poll' = IF exit0 THEN PollReturns(q, "true") ELSE [q EXCEPT !.pc = "sleep"]
  /\ UNCHANGED pollFrame

\* waitForReady: `docker info` is run without a timeout and may never exit
DockerInfoHangs ==
  /\ poll.pc = "probe"
  /\ poll.loop = "waitForReady"
  /\ poll' = [poll EXCEPT !.pc = "hung"]
  /\ UNCHANGED pollFrame

\* waitForHealthy: getContainerStatus() answers, or runWithTimeout gives null
ContainerStatusAnswered ==
  /\ poll.pc = "probe"
  /\ poll.loop = "waitForHealthy"
  /\ \E d \in ProbeTimes \cup {COMMAND_TIMEOUT_MS}, healthy \in BOOLEAN :
       /\ d = COMMAND_TIMEOUT_MS => ~healthy
       /\ LET q == [poll EXCEPT !.now = poll.now + d,
                                !.succeededIn = IF healthy THEN poll.iterations ELSE 0]
          IN poll' = IF healthy THEN PollReturns(q, "true")
                     ELSE [q EXCEPT !.pc = "fetch", !.probes = poll.probes + 1,
                                    !.probeAt = poll.now + d]
  /\ UNCHANGED pollFrame

\* waitForHealthy: fetch(".../healthz") resolves ok, resolves not ok, or rejects
HealthzAnswered ==
  /\ poll.pc = "fetch"
  /\ \E d \in ProbeTimes, answer \in {"ok", "notOk", "rejected"} :
       LET q == [poll EXCEPT !.now = poll.now + d,
                             !.succeededIn = IF answer = "ok" THEN poll.iterations ELSE 0]
       IN poll' = IF answer = "ok" THEN PollReturns(q, "true") ELSE [q EXCEPT !.pc = "sleep"]
  /\ UNCHANGED pollFrame

\* `await Bun.sleep(intervalMs)`
Sleep ==
  /\ poll.pc = "sleep"
  /\ poll' = [poll EXCEPT !.pc = "head", !.now = poll.now + poll.intervalMs,
                          !.slept = poll.intervalMs]
  /\ UNCHANGED pollFrame

NextPoll ==
  \/ LoopHead
  \/ DockerInfoAnswered
  \/ DockerInfoHangs
  \/ ContainerStatusAnswered
  \/ HealthzAnswered
  \/ Sleep

SpecPoll == InitOfPoll /\ [][NextPoll]_vars

\* the loops under a scheduler that runs every step that can be taken
SpecPollFair == SpecPoll /\ WF_vars(NextPoll)


\* ------------------------------------------------------------------
\* uninstall() (SpecUninstall)
\* ------------------------------------------------------------------

\* installations uninstall() can meet; the remote objects exist when a
\* TunnelConfig is persisted
Installations ==
  {h \in [compose : BOOLEAN, env : BOOLEAN, tunnelConfig : BOOLEAN,
          container : {"none", "stopped", "running"}, volume : BOOLEAN,
          dnsRecord : BOOLEAN, tunnel : BOOLEAN] :
     /\ h.dnsRecord = h.tunnelConfig
     /\ h.tunnel = h.tunnelConfig}

UninstallStarts ==
  {[InitUn EXCEPT !.pc = "check", !.force = f, !.removeVolumes = v, !.flag = v,
                  !.host = h, !.host0 = h] :
     f \in BOOLEAN, v \in BOOLEAN, h \in Installations}

InitOfUninstall ==
  /\ InstallInit
  /\ svc = InitSvc
  /\ gate = InitGate
  /\ poll = InitPoll
  /\ sub = InitSub
  /\ det = InitDet
  /\ rwt = InitRwt
  /\ un \in UninstallStarts

\* faulty variant: the prompt is skipped
NeedsConfirm_Never(force) == FALSE

\* `if (!options.force)`
NeedsConfirm(force) == ~force

\* process.exit(0)
UninstallExits(u) == [u EXCEPT !.pc = "done", !.exit = "0"]

\* the installed check, then getContainerStatus() and volumeExists(); a
\* volume probe that times out or throws answers false
UninstallCheck ==
  /\ un.pc = "check"
  /\ \E answer \in {un.host.volume, FALSE} :
       un' = IF ~un.host.compose /\ ~un.host.env
               THEN UninstallExits(un)
               ELSE [un EXCEPT !.hasVolume = answer,
                               !.pc = IF NeedsConfirm(un.force) THEN "confirm" ELSE "down"]
  /\ UNCHANGED uninstallFrame

\* "Are you sure you want to uninstall n8n?"
UninstallConfirm ==
  /\ un.pc = "confirm"
  /\ \E shouldProceed \in BOOLEAN :
       un' = IF ~shouldProceed
               THEN UninstallExits([un EXCEPT !.confirmed = "no"])
               ELSE [un EXCEPT !.confirmed = "yes",
                               !.pc = IF un.hasVolume /\ ~un.removeVolumes
                                        THEN "askVolumes" ELSE "down"]
  /\ UNCHANGED uninstallFrame

\* "Do you want to remove n8n data (workflows, credentials)?"
UninstallAskVolumes ==
  /\ un.pc = "askVolumes"
  /\ \E answer \in BOOLEAN :
       un' = [un EXCEPT !.removeVolumes = answer, !.pc = "down",
                        !.askedVolumes = IF answer THEN "yes" ELSE "no"]
  /\ UNCHANGED uninstallFrame

\* faulty variant: the volumes go with every compose down
composeDown_AlwaysVolumes(removeVolumes) == "compose down -v"

\* composeDown(removeVolumes): `down -v` iff removeVolumes
composeDown(removeVolumes) ==
  IF removeVolumes THEN "compose down -v" ELSE "compose down"

\* faulty variant: a compose down that throws ends the run
AfterComposeDown_FailStop(ok) == IF ok THEN "clean" ELSE "done"

\* `try { await composeDown(...) } catch { warn }`: step 2 follows either way
AfterComposeDown(ok) == "clean"

\* step 1: composeDown(options.removeVolumes); a failure is caught
UninstallComposeDown ==
  /\ un.pc = "down"
  /\ \E ok \in BOOLEAN :
       LET op == composeDown(un.removeVolumes)
           h == IF ok THEN [un.host EXCEPT !.container = "none",
                                           !.volume = un.host.volume /\ op # "compose down -v"]
                ELSE un.host
       IN un' = [un EXCEPT !.host = h, !.ops = Append(un.ops, op),
                           !.down = IF ok THEN "ok" ELSE "failed",
                           !.pc = AfterComposeDown(ok)]
  /\ UNCHANGED uninstallFrame

\* step 2: rm docker-compose.yml, then rm .env; a failure of either is caught
\* and ends the step; then the summary, and uninstall() returns
UninstallRemoveFiles ==
  /\ un.pc = "clean"
  /\ \E removed \in 0..2 :
       LET h == [un.host EXCEPT !.compose = un.host.compose /\ removed < 1,
                                !.env = un.host.env /\ removed < 2]
       IN un' = [un EXCEPT !.host = h, !.ops = Append(un.ops, "rm"),
                           !.pc = "done", !.exit = "returned"]
  /\ UNCHANGED uninstallFrame

NextUninstall ==
  \/ UninstallCheck
  \/ UninstallConfirm
  \/ UninstallAskVolumes
  \/ UninstallComposeDown
  \/ UninstallRemoveFiles

SpecUninstall == InitOfUninstall /\ [][NextUninstall]_vars


\* ------------------------------------------------------------------
\* isValidSubdomain() (SpecSubdomain)
\* ------------------------------------------------------------------
\* longest of the short arguments, which are enumerated in full
MaxShortLen == 3

\* characters of the arguments: a letter, a capital, a digit, the hyphen and
\* one character outside the classes of the pattern
SubdomainChars == {"a", "N", "8", Hyphen, "_"}

\* every string of up to MaxShortLen characters
ShortSubdomains ==
  UNION {[1..n -> SubdomainChars] : n \in 0..MaxShortLen}

\* lengths around the longest string the pattern matches
LongLens == {62, 63, 64, 65}

\* long strings: a first character, a last one, and one repeated in between
LongSubdomains ==
  {[i \in 1..n |-> IF i = 1 THEN first ELSE IF i = n THEN last ELSE middle] :
     n \in LongLens, first \in SubdomainChars, last \in SubdomainChars,
     middle \in SubdomainChars}

SubdomainArguments == ShortSubdomains \cup LongSubdomains

InitOfSubdomain ==
  /\ InstallInit
  /\ svc = InitSvc
  /\ gate = InitGate
  /\ poll = InitPoll
  /\ un = InitUn
  /\ det = InitDet
  /\ rwt = InitRwt
  /\ sub \in {[InitSub EXCEPT !.pc = "called", !.subdomain = s] : s \in SubdomainArguments}

\* `return subdomainRegex.test(subdomain)`
ValidateSubdomain ==
  /\ sub.pc = "called"
  /\ sub' = [sub EXCEPT !.pc = "returned", !.result = isValidSubdomain(sub.subdomain)]
  /\ UNCHANGED subdomainFrame

NextSubdomain == ValidateSubdomain

SpecSubdomain == InitOfSubdomain /\ [][NextSubdomain]_vars


\* ------------------------------------------------------------------
\* detectRuntime(), sub-probe by sub-probe (SpecDetect)
\* ------------------------------------------------------------------
\* `orb version` / `docker version`: a version string, an error exit, or a timeout
VersionAnswers == {"2.0.5", "error", Timeout}

\* no command of the detection has been run yet
Unasked == "unasked"
NoAnswers ==
  [whichOrb |-> Unasked, orbStatus |-> Unasked, orbInfo |-> Unasked, orbVersion |-> Unasked,
   whichDocker |-> Unasked, dockerInfo |-> Unasked, dockerVersion |-> Unasked,
   whichBrew |-> Unasked]

\* `orb status` reports OrbStack's own machine, which may run while the docker
\* CLI talks to another engine
OrbMachineAnswers(h) == OrbStatusAnswers(h) \cup (IF h.orbstack THEN {"running"} ELSE {})

\* both `docker info` calls of one detection talk to the same daemon
SameDaemon(other, answer) == other \in {Unasked, Timeout, answer} \/ answer = Timeout

DetectStarts ==
  {[InitDet EXCEPT !.pc = "await", !.host = h, !.answers = NoAnswers,
                   !.orbstack = [NoEngine EXCEPT !.pc = "which"],
                   !.docker = [NoEngine EXCEPT !.pc = "which"],
                   !.homebrew = [pc |-> "which", installed |-> FALSE]] :
     h \in Hosts}

InitOfDetect ==
  /\ InstallInit
  /\ svc = InitSvc
  /\ gate = InitGate
  /\ poll = InitPoll
  /\ un = InitUn
  /\ sub = InitSub
  /\ rwt = InitRwt
  /\ det \in DetectStarts

\* a sub-probe returns: its promise is fulfilled
Completed(d, name) == [d EXCEPT !.order = Append(d.order, name)]

\* detectOrbStack(): existsSync and `which orb`
OrbWhich ==
  /\ det.pc = "await"
  /\ det.orbstack.pc = "which"
  /\ \E answer \in WhichAnswers(det.host.orbstack) :
     LET installed == det.host.orbstack \/ answer = "found"
         d == [det EXCEPT !.answers.whichOrb = answer,
                          !.orbstack.installed = installed,
                          !.orbstack.pc = IF installed THEN "status" ELSE "done"]
     IN det' = IF installed THEN d ELSE Completed(d, "orbstack")
  /\ UNCHANGED detectFrame

\* detectOrbStack(): `orb status`
OrbStatus ==
  /\ det.pc = "await"
  /\ det.orbstack.pc = "status"
  /\ \E answer \in OrbMachineAnswers(det.host) :
     LET running == answer = "running"
     IN det' = [det EXCEPT !.answers.orbStatus = answer,
                           !.orbstack.running = running,
                           !.orbstack.pc = IF running THEN "version" ELSE "info"]
  /\ UNCHANGED detectFrame

\* detectOrbStack(): the `docker info` fallback
OrbInfo ==
  /\ det.pc = "await"
  /\ det.orbstack.pc = "info"
  /\ \E answer \in DockerInfoAnswers(det.host) :
       /\ SameDaemon(det.answers.dockerInfo, answer)
       /\ LET running == answer = "orbstack"
              d == [det EXCEPT !.answers.orbInfo = answer,
                               !.orbstack.running = running,
                               !.orbstack.pc = IF running THEN "version" ELSE "done"]
          IN det' = IF running THEN d ELSE Completed(d, "orbstack")
  /\ UNCHANGED detectFrame

\* detectOrbStack(): `orb version`
OrbVersion ==
  /\ det.pc = "await"
  /\ det.orbstack.pc = "version"
  /\ \E answer \in VersionAnswers :
     LET version == IF answer \in {"error", Timeout} THEN "" ELSE answer
     IN det' = Completed([det EXCEPT !.answers.orbVersion = answer,
                                     !.orbstack.version = version,
                                     !.orbstack.pc = "done"], "orbstack")
  /\ UNCHANGED detectFrame

\* detectDockerDesktop(): existsSync and `which docker`
DockerWhich ==
  /\ det.pc = "await"
  /\ det.docker.pc = "which"
  /\ \E answer \in WhichAnswers(det.host.dockerCli) :
     LET installed == det.host.dockerApp \/ answer = "found"
         d == [det EXCEPT !.answers.whichDocker = answer,
                          !.docker.installed = installed,
                          !.docker.pc = IF installed THEN "info" ELSE "done"]
     IN det' = IF installed THEN d ELSE Completed(d, "docker")
  /\ UNCHANGED detectFrame

\* detectDockerDesktop(): `docker info`
DockerInfo ==
  /\ det.pc = "await"
  /\ det.docker.pc = "info"
  /\ \E answer \in DockerInfoAnswers(det.host) :
       /\ SameDaemon(det.answers.orbInfo, answer)
       /\ LET running == answer = "docker-desktop"
              d == [det EXCEPT !.answers.dockerInfo = answer,
                               !.docker.running = running,
                               !.docker.pc = IF running THEN "version" ELSE "done"]
          IN det' = IF running THEN d ELSE Completed(d, "docker")
  /\ UNCHANGED detectFrame

\* detectDockerDesktop(): `docker version`
DockerVersion ==
  /\ det.pc = "await"
  /\ det.docker.pc = "version"
  /\ \E answer \in VersionAnswers :
     LET version == IF answer \in {"error", Timeout} THEN "" ELSE answer
     IN det' = Completed([det EXCEPT !.answers.dockerVersion = answer,
                                     !.docker.version = version,
                                     !.docker.pc = "done"], "docker")
  /\ UNCHANGED detectFrame

\* detectHomebrew(): `which brew`
BrewWhich ==
  /\ det.pc = "await"
  /\ det.homebrew.pc = "which"
  /\ \E answer \in WhichAnswers(det.host.homebrew) :
       det' = Completed([det EXCEPT !.answers.whichBrew = answer,
                                    !.homebrew.installed = answer = "found",
                                    !.homebrew.pc = "done"], "homebrew")
  /\ UNCHANGED detectFrame

\* faulty variant: the first sub-probe to complete releases the await
AllSettled_Any(d) == "done" \in {d.orbstack.pc, d.docker.pc, d.homebrew.pc}

\* `await Promise.all([...])`: every sub-probe has returned
AllSettled(d) == {d.orbstack.pc, d.docker.pc, d.homebrew.pc} = {"done"}

\* faulty variant: Docker Desktop is looked at first
Combine_DockerFirst(orbstack, docker, homebrew) ==
  [orbstack |-> orbstack, docker |-> docker, homebrew |-> homebrew,
   ready |-> orbstack.running \/ docker.running,
   activeRuntime |-> IF docker.running THEN "docker-desktop"
                     ELSE IF orbstack.running THEN "orbstack" ELSE ""]

\* ready, activeRuntime and the RuntimeStatus returned
Combine(orbstack, docker, homebrew) ==
  [orbstack |-> orbstack, docker |-> docker, homebrew |-> homebrew,
   ready |-> orbstack.running \/ docker.running,
   activeRuntime |-> IF orbstack.running THEN "orbstack"
                     ELSE IF docker.running THEN "docker-desktop" ELSE ""]

\* what a sub-probe returns: { installed, running, version }
EngineStatus(e) == [installed |-> e.installed, running |-> e.running, version |-> e.version]

\* the await resumes and detectRuntime() returns
DetectReturns ==
  /\ det.pc = "await"
  /\ AllSettled(det)
  /\ det' = [det EXCEPT !.pc = "done",
                        !.result = Combine(EngineStatus(det.orbstack),
                                           EngineStatus(det.docker),
                                           [installed |-> det.homebrew.installed])]
  /\ UNCHANGED detectFrame

NextDetect ==
  \/ OrbWhich
  \/ OrbStatus
  \/ OrbInfo
  \/ OrbVersion
  \/ DockerWhich
  \/ DockerInfo
  \/ DockerVersion
  \/ BrewWhich
  \/ DetectReturns

SpecDetect == InitOfDetect /\ [][NextDetect]_vars


\* ------------------------------------------------------------------
\* runWithTimeout() (SpecTimeout)
\* ------------------------------------------------------------------
\* the commands the detection probes run through runWithTimeout()
TimedCommands ==
  {"which orb", "orb status", "docker info", "orb version", "which docker",
   "docker version", "which brew"}

\* the promise executor has run: the timer is armed and the child spawned
TimeoutStarts ==
  {[InitRwt EXCEPT !.command = c, !.timer = "armed", !.proc = "running",
                   !.promise = "pending"] : c \in TimedCommands}

InitOfTimeout ==
  /\ InstallInit
  /\ svc = InitSvc
  /\ gate = InitGate
  /\ poll = InitPoll
  /\ un = InitUn
  /\ sub = InitSub
  /\ det = InitDet
  /\ rwt \in TimeoutStarts

\* resolve(v): settles the promise if it is pending, a no-op otherwise
Resolve(r, v) ==
  [r EXCEPT !.resolveCalls = r.resolveCalls + 1,
            !.promise = "resolved",
            !.value = IF r.promise = "pending" THEN v ELSE r.value]

\* the timer callback: `proc.kill(); resolve(null)`
TimerFires ==
  /\ rwt.timer = "armed"
  /\ rwt' = Resolve([rwt EXCEPT !.timer = "fired",
                                !.proc = IF rwt.proc = "running" THEN "killed" ELSE rwt.proc,
                                !.first = IF rwt.first = "none" THEN "timer" ELSE rwt.first],
                    "null")
  /\ UNCHANGED timeoutFrame

\* the child goes away, by itself or after the kill: proc.exited is fulfilled
ProcessExits ==
  /\ rwt.proc \in {"running", "killed"}
  /\ \E code \in {0, 1} :
       rwt' = [rwt EXCEPT !.proc = "exited",
                          !.exitCode = IF rwt.proc = "killed" THEN 143 ELSE code]
  /\ UNCHANGED timeoutFrame

\* clearTimeout(timeout)
ClearTimeout(timer) == IF timer = "armed" THEN "cleared" ELSE timer

\* the .then callback up to its await: clearTimeout, then the stdout read
ExitCallback ==
  /\ rwt.proc = "exited"
  /\ rwt.onExit = "none"
  /\ rwt' = [rwt EXCEPT !.timer = ClearTimeout(rwt.timer),
                        !.onExit = "reading",
                        !.first = IF rwt.first = "none" THEN "exit" ELSE rwt.first]
  /\ UNCHANGED timeoutFrame

\* the stdout text arrives: `resolve({ exitCode, stdout })`
ReadCompletes ==
  /\ rwt.onExit = "reading"
  /\ rwt' = Resolve([rwt EXCEPT !.onExit = "done"], "result")
  /\ UNCHANGED timeoutFrame

\* the stdout read rejects: the .catch callback, `clearTimeout; resolve(null)`
ReadFails ==
  /\ rwt.onExit = "reading"
  /\ rwt' = Resolve([rwt EXCEPT !.onExit = "caught",
                                !.timer = ClearTimeout(rwt.timer)], "null")
  /\ UNCHANGED timeoutFrame

\* the stdout pipe is never closed (a descendant of the shell holds its write
\* end): the read does not complete and nothing is pending on it but the await
ReadStalls ==
  /\ rwt.onExit = "reading"
  /\ rwt' = [rwt EXCEPT !.onExit = "stalled"]
  /\ UNCHANGED timeoutFrame

NextTimeout ==
  \/ TimerFires
  \/ ProcessExits
  \/ ExitCallback
  \/ ReadCompletes
  \/ ReadFails
  \/ ReadStalls

SpecTimeout == InitOfTimeout /\ [][NextTimeout]_vars

\* the event loop runs every callback that is due
SpecTimeoutFair == SpecTimeout /\ WF_vars(NextTimeout)


\* ------------------------------------------------------------------
\* Properties
\* ------------------------------------------------------------------
CallOps == {calls[i].op : i \in 1..Len(calls)}
MutatingCalls == {i \in 1..Len(calls) : calls[i].method # "GET"}
LocalOpsDone == {localOps[i] : i \in 1..Len(localOps)}
ConfigWrites == {"copyDockerCompose", "createEnvFile",
                 "copyDockerComposeWithTunnel", "createTunnelEnvFile"}
CompensatedSteps == {"configureTunnelIngress", "getTunnelToken", "dnsRecord"}
\* the remote steps of one provisioning run, token validation through DNS
ProvisioningSteps == {"validateToken", "getAccountId", "listZones", "selectZone",
                      "findDnsRecord", "createTunnel", "configureTunnelIngress",
                      "getTunnelToken", "dnsRecord"}
RunEnded == pc = "exited"
RunFailed == RunEnded /\ exit \in {"exit1", "uncaught"}

\* C1: once createTunnel succeeded, a run that ends after a failure of the
\* ingress, tunnel-token or DNS step has exit status 1 and its last request
\* is the DELETE of the tunnel created in this run.
C1_DeleteTunnelInvoked ==
  (RunEnded /\ failedAt \in CompensatedSteps) =>
    /\ "createTunnel" \in stepsOk
    /\ loc.tunnel # NoTunnel
    /\ exit = "exit1"
    /\ Len(calls) >= 2
    /\ calls[Len(calls)].op = "deleteTunnel"
    /\ calls[Len(calls)].method = "DELETE"
    /\ calls[Len(calls)].tunnelId = loc.tunnel.id
    /\ calls[Len(calls) - 1].tunnelId \in {0, loc.tunnel.id}
    /\ Cardinality({i \in 1..Len(calls) : calls[i].op = "deleteTunnel"}) = 1

\* a run ended after the DNS step failed on the tunnel it had created
C1_Witness ==
  /\ RunEnded
  /\ failedAt = "dnsRecord"
  /\ loc.tunnel # NoTunnel
  /\ "deleteTunnel" \in CallOps

\* C2: a run that ends with an error after it created a tunnel leaves no
\* such tunnel in the remote tunnel list.
C2_NoOrphanedTunnel ==
  (RunFailed /\ loc.tunnel # NoTunnel) => loc.tunnel \notin tunnels

\* C3: in a tunnel run a configuration write happens only after every
\* provisioning step succeeded, it is then the tunnel pair of writers, and
\* the config store holds either no tunnel config or one with all fields set.
C3_ConfigOnlyAfterProvisioning ==
  /\ (~options.local /\ LocalOpsDone \cap ConfigWrites # {}) =>
       /\ ProvisioningSteps \subseteq stepsOk
       /\ failedAt = ""
       /\ LocalOpsDone \cap ConfigWrites \subseteq
            {"copyDockerComposeWithTunnel", "createTunnelEnvFile"}
  /\ files.tunnelEnv # NoConfig =>
       /\ files.tunnelEnv.tunnelId # 0
       /\ files.tunnelEnv.dnsRecordId # 0
       /\ files.tunnelEnv.tunnelToken # <<>>
       /\ files.tunnelEnv.accountId # ""
       /\ files.tunnelEnv.zoneId # ""
       /\ files.tunnelEnv.hostname # <<>>

\* a tunnel run has written its configuration
C3_Witness ==
  /\ ~options.local
  /\ "createTunnelEnvFile" \in LocalOpsDone
  /\ files.tunnelEnv = loc.tunnelConfig
  /\ files.tunnelEnv # NoConfig

\* C4: with an existing record found and no affirmative confirmation, no
\* mutating request has been issued; a negative answer ends the run with
\* exit status 0, no mutating request, no config write and no container start.
C4_ConfirmationGate ==
  /\ (loc.existingRecord # NoRecord /\ ~(loc.asked /\ loc.shouldUpdate)) =>
       MutatingCalls = {}
  /\ (loc.asked /\ ~loc.shouldUpdate) =>
       /\ RunEnded
       /\ exit = "exit0"
       /\ MutatingCalls = {}
       /\ loc.tunnel = NoTunnel
       /\ LocalOpsDone \cap (ConfigWrites \cup {"composeUp"}) = {}

\* the operator declined to overwrite an existing record
C4_Witness ==
  /\ loc.existingRecord # NoRecord
  /\ loc.asked
  /\ ~loc.shouldUpdate
  /\ RunEnded


\* C5: a run without --force on a complete installation is a no-op warning:
\* it issues no request, performs no local operation and ends with status 0.
C5_NoOpWhenInstalled ==
  (loc.alreadyInstalled /\ ~options.force) =>
    /\ calls = <<>>
    /\ localOps = <<>>
    /\ RunEnded => exit = "exit0"

\* C6: after any sequence of install runs at most one tunnel that those
\* runs created exists remotely.
C6_AtMostOneTunnel == Cardinality(tunnels) <= 1

\* C7: a mutating request is issued only after the token was verified as
\* active, the account id was resolved and a zone of the returned list was
\* selected; a run that ends before that has created nothing and has
\* nothing to compensate.
GateSteps == {"validateToken", "getAccountId", "listZones", "selectZone"}
C7_NoMutationBeforeResolution ==
  /\ MutatingCalls # {} =>
       /\ loc.tokenStatus = "active"
       /\ accountId # ""
       /\ loc.zones # <<>>
       /\ \E i \in 1..Len(loc.zones) : loc.zones[i] = loc.selectedZone
  /\ (RunEnded /\ ~(GateSteps \subseteq stepsOk)) =>
       /\ MutatingCalls = {}
       /\ loc.tunnel = NoTunnel
       /\ failedAt = ""
       /\ loc.tunnelConfig = NoConfig

\* a run ended because the --domain value is not in the zone list
C7_Witness ==
  /\ RunEnded
  /\ exit = "exit1"
  /\ options.domain # <<>>
  /\ "listZones" \in stepsOk
  /\ "selectZone" \notin stepsOk

\* C8: the requests of a run are issued in the pipeline order, each at most
\* once, each only after all earlier steps succeeded, and never while
\* another request is in flight.
StepRank(op) ==
  CASE op = "validateToken" -> 1
    [] op = "getAccounts" -> 2
    [] op = "getAccountIdZones" -> 3
    [] op = "listZones" -> 4
    [] op = "findDnsRecord" -> 5
    [] op = "createTunnel" -> 6
    [] op = "configureTunnelIngress" -> 7
    [] op = "getTunnelToken" -> 8
    [] op \in {"createDnsRecord", "updateDnsRecord"} -> 9
    [] op = "deleteTunnel" -> 10
StepsBefore(op) ==
  CASE op = "validateToken" -> {}
    [] op \in {"getAccounts", "getAccountIdZones"} -> {"validateToken"}
    [] op = "listZones" -> {"validateToken", "getAccountId"}
    [] op = "findDnsRecord" -> GateSteps
    [] op = "createTunnel" -> GateSteps \cup {"findDnsRecord"}
    [] op = "configureTunnelIngress" -> GateSteps \cup {"findDnsRecord", "createTunnel"}
    [] op = "getTunnelToken" ->
         GateSteps \cup {"findDnsRecord", "createTunnel", "configureTunnelIngress"}
    [] op \in {"createDnsRecord", "updateDnsRecord"} ->
         GateSteps \cup {"findDnsRecord", "createTunnel", "configureTunnelIngress",
                         "getTunnelToken"}
    [] op = "deleteTunnel" -> GateSteps \cup {"findDnsRecord", "createTunnel"}
C8_SequentialPipeline ==
  /\ \A i, j \in 1..Len(calls) : i < j => StepRank(calls[i].op) < StepRank(calls[j].op)
  /\ \A i \in 1..Len(calls) : StepsBefore(calls[i].op) \subseteq stepsOk
  /\ Cardinality(inflight) <= 1
  /\ inflight # {} => inflight = {calls[Len(calls)]}
  /\ (loc.existingRecord # NoRecord /\ "createTunnel" \in CallOps) => loc.shouldUpdate

\* a run issued all eight kinds of requests and returned its config
C8_Witness ==
  /\ pc = "config"
  /\ loc.tunnelConfig # NoConfig
  /\ {"validateToken", "getAccounts", "getAccountIdZones", "listZones", "findDnsRecord",
      "createTunnel", "configureTunnelIngress", "getTunnelToken", "updateDnsRecord"}
       \subseteq CallOps

\* C9: a run whose supplied subdomain does not match the validity pattern
\* ends with an error without any request issued and no remote object created.
C9_InvalidSubdomainRejected ==
  (options.subdomain # <<>> /\ ~isValidSubdomain(options.subdomain)) =>
    /\ calls = <<>>
    /\ loc.tunnel = NoTunnel
    /\ RunEnded => exit = "exit1"

\* C10: in a run that returned a TunnelConfig the ingress request, the DNS
\* lookup and the config carry the hostname subdomain.zone; the record the
\* DNS request wrote targets <tunnel id>.cfargotunnel.com of this run's
\* tunnel, and its id is the config's dnsRecordId.
CallsOf(op) == {calls[i] : i \in {k \in 1..Len(calls) : calls[k].op = op}}
C10_HostnameAgreement ==
  (pc \in {"config", "composeUp", "waitForHealthy", "exited"}
     /\ loc.tunnelConfig # NoConfig) =>
    LET cfg == loc.tunnelConfig
        hostname == loc.subdomain \o <<".">> \o loc.selectedZone.name
    IN /\ cfg.hostname = hostname
       /\ cfg.zoneName = loc.selectedZone.name
       /\ \E z \in 1..Len(loc.zones) : loc.zones[z] = loc.selectedZone
       /\ CallsOf("findDnsRecord") # {}
       /\ CallsOf("configureTunnelIngress") # {}
       /\ \A c \in CallsOf("findDnsRecord") : c.hostname = hostname
       /\ \A c \in CallsOf("configureTunnelIngress") :
            c.hostname = hostname /\ c.tunnelId = cfg.tunnelId
       /\ \E g \in ingress : g.tunnelId = cfg.tunnelId /\ g.rules[1].hostname = hostname
       /\ cfg.tunnelId = loc.tunnel.id
       /\ loc.tunnel \in tunnels
       /\ \A c \in CallsOf("createDnsRecord") \cup CallsOf("updateDnsRecord") :
            c.content = <<loc.tunnel.id, "cfargotunnel.com">>
       /\ \E r \in dnsRecords :
            /\ r.id = cfg.dnsRecordId
            /\ r.content = <<loc.tunnel.id, "cfargotunnel.com">>
            /\ r.zoneId = cfg.zoneId
       /\ Cardinality(CallsOf("createDnsRecord") \cup CallsOf("updateDnsRecord")) = 1

\* a run returned its TunnelConfig after creating a new DNS record
C10_Witness ==
  /\ pc = "config"
  /\ loc.tunnelConfig # NoConfig
  /\ "createDnsRecord" \in CallOps
  /\ loc.tunnelConfig.hostname = <<"n", "8", "n", ".", "x", ".", "c">>

\* ---------------------------------------------------------------------------
\* C11: when a DNS record already exists for the hostname and the overwrite was
\* confirmed, the DNS step calls updateDnsRecord with the existing record's id,
\* calls neither createDnsRecord nor deleteDnsRecord, and the dnsRecordId it
\* keeps (and returns in the tunnel config) is the pre-existing record's id,
\* which still names a record of the zone.
C11_UpdateInPlace ==
  (loc.existingRecord # NoRecord /\ loc.shouldUpdate /\ "dnsRecord" \in stepsOk) =>
    /\ \E i \in DOMAIN calls :
         /\ calls[i].op = "updateDnsRecord"
         /\ calls[i].method = "PUT"
         /\ calls[i].recordId = loc.existingRecord.id
    /\ "createDnsRecord" \notin CallOps
    /\ "deleteDnsRecord" \notin CallOps
    /\ loc.dnsRecordId = loc.existingRecord.id
    /\ loc.tunnelConfig.dnsRecordId = loc.existingRecord.id
    /\ \E r \in dnsRecords :
         /\ r.id = loc.existingRecord.id
         /\ r.content = cnameTarget(loc.tunnel.id)

C11_Witness ==
  /\ pc = "config"
  /\ loc.existingRecord # NoRecord
  /\ loc.shouldUpdate
  /\ "dnsRecord" \in stepsOk
  /\ CallsOf("updateDnsRecord") # {}

C13_AccountIdCached ==
  svc.firstId # "" =>
    /\ svc.accountId = svc.firstId
    /\ svc.lookupsAfter = 0
    /\ (svc.method \in AccountMethods \cup {"getAccountId"} /\ svc.pc \in {"own", "done"})
         => svc.acct = Return(svc.firstId)
    /\ \A i \in DOMAIN svc.sent : svc.sent[i].account \in {"", svc.firstId}

\* a later account-scoped method ran on the cached id: its only request is its own
C13_Witness ==
  /\ svc.n >= 2
  /\ svc.pc = "done"
  /\ svc.method \in AccountMethods
  /\ svc.acct = Return(svc.firstId)
  /\ svc.firstId # ""
  /\ svc.sent = <<Sent(svc.method, svc.firstId)>>

\* ---------------------------------------------------------------------------
\* the lookups of the getAccountId() that ran inside the current call
AccountsFailedOrEmpty ==
  /\ Len(svc.log) >= 1
  /\ svc.log[1].op = "accounts"
  /\ \/ svc.log[1].resp.net
     \/ ~svc.log[1].resp.success
     \/ Len(svc.log[1].resp.result) = 0
ZonesListed ==
  /\ Len(svc.log) >= 2
  /\ svc.log[2].op = "zones"
  /\ ~svc.log[2].resp.net
  /\ svc.log[2].resp.success
ListedZones == svc.log[2].resp.result

\* C14 as stated: when the account listing fails or is empty and the zone
\* listing succeeds with at least one zone carrying an account id,
\* getAccountId returns the id embedded in the first zone returned.
C14_FallbackSomeZoneCarriesId ==
  (AccountsFailedOrEmpty /\ ZonesListed
     /\ \E i \in 1..Len(ListedZones) : ListedZones[i].account # "") =>
    svc.acct = Return(ListedZones[1].account)

\* C14, amended: when the account listing fails or is empty and the zone
\* listing succeeds with a first zone that carries an account id, getAccountId
\* returns the id embedded in that first zone; it throws only when neither the
\* account listing nor the first zone yields an id.
C14_FallbackFirstZone ==
  /\ (AccountsFailedOrEmpty /\ ZonesListed
        /\ Len(ListedZones) > 0 /\ ListedZones[1].account # "") =>
       /\ svc.acct = Return(ListedZones[1].account)
       /\ svc.accountId = ListedZones[1].account
  /\ svc.acct.kind = "throw" =>
       /\ AccountsFailedOrEmpty
       /\ Len(svc.log) >= 2
       /\ svc.log[2].op = "zones"
       /\ \/ ~ZonesListed
          \/ Len(ListedZones) = 0
          \/ ListedZones[1].account = ""

\* the account listing was rejected and the first zone supplied the id
C14_Witness ==
  /\ AccountsFailedOrEmpty
  /\ ~svc.log[1].resp.success
  /\ ZonesListed
  /\ svc.acct = Return("acc1")
  /\ ListedZones[1].account = "acc1"

\* ---------------------------------------------------------------------------
\* C15: when the request that decides a call's outcome fails on the network,
\* the caller gets a transport error (the rejected fetch), distinguishable from
\* the error of a remote rejection; this holds for every method, token
\* verification included.
C15_TransportErrorSurfaced ==
  (svc.pc = "done" /\ svc.log # <<>> /\ svc.log[Len(svc.log)].resp.net) =>
    /\ svc.result.kind = "throw"
    /\ svc.result.error.type = "TypeError"
    /\ svc.result.error # request([net |-> FALSE, success |-> FALSE, errors |-> <<>>,
                                   result |-> <<>>]).error

\* ---------------------------------------------------------------------------
\* C16: request() hands back a response only when the envelope says
\* success=true; for success=false it throws an error whose message is
\* "Cloudflare API error: " followed by the envelope's error messages, in order,
\* separated by ", "; no method returns the result of a rejected call.
C16_EnvelopeChecked ==
  /\ \A i \in DOMAIN svc.log :
       LET resp == svc.log[i].resp
           out == svc.log[i].out
           e == resp.errors
           m == out.error.message
       IN /\ (out.kind = "return") <=> (~resp.net /\ resp.success)
          /\ (out.kind = "return") => (out.data = resp)
          /\ (~resp.net /\ ~resp.success) =>
               /\ out.kind = "throw"
               /\ out.error.type = "Error"
               /\ Len(m) = 1 + (IF Len(e) = 0 THEN 0 ELSE 2 * Len(e) - 1)
               /\ m[1] = "Cloudflare API error: "
               /\ \A k \in 1..Len(e) : m[2 * k] = e[k]
               /\ \A k \in 1..(Len(e) - 1) : m[2 * k + 1] = ", "
  /\ (svc.pc = "done" /\ svc.log # <<>> /\ ~svc.log[Len(svc.log)].resp.net
        /\ ~svc.log[Len(svc.log)].resp.success) =>
       \/ svc.result = svc.log[Len(svc.log)].out
       \/ svc.method = "validateToken" /\ svc.result = Return(FALSE)

\* a rejection with two errors was turned into one error message
C16_Witness ==
  \E i \in DOMAIN svc.log :
    /\ ~svc.log[i].resp.net
    /\ ~svc.log[i].resp.success
    /\ Len(svc.log[i].resp.errors) = 2
    /\ svc.log[i].out.error.message = <<"Cloudflare API error: ", "e1", ", ", "e2">>

\* ---------------------------------------------------------------------------
\* C17: the readiness gate precedes provisioning: a Cloudflare API call, the
\* port check, the image pull, a config write or the container start happens
\* only in a run whose ensureRuntime returned without error; a run whose gate
\* failed has ended with exit code 1 and performed none of them.
C17_GateFirst ==
  /\ (calls # <<>> \/ inflight # {} \/ localOps # <<>>) => loc.runtime = "ready"
  /\ pc \notin {"idle", "ensureRuntime", "exited"} => loc.runtime = "ready"
  /\ loc.runtime = "failed" =>
       /\ pc = "exited"
       /\ exit = "exit1"
       /\ calls = <<>>
       /\ inflight = {}
       /\ localOps = <<>>
       /\ stepsOk = {}

\* a second run stopped at the gate, after a first run had provisioned
C17_Witness ==
  /\ loc.runtime = "failed"
  /\ pc = "exited"
  /\ runs = 2
  /\ tunnels # {}

\* ---------------------------------------------------------------------------
\* C18: whenever ensureRuntime() returns a status instead of throwing (fast
\* path, CI mode, after a start-and-poll remediation), that status has ready = true.
C18_ReturnedStatusReady ==
  gate.result = "returned" => gate.status.ready

\* C19: outside CI, when `docker info` succeeds on the first check, the gate
\* goes straight to ready: ensureRuntime() returns without a start or install
\* command and without polling.
C19_FastPath ==
  (~gate.ci /\ gate.firstInfoOk) =>
    /\ gate.pc = "returned"
    /\ gate.cmds = <<>>
    /\ ~gate.polled

\* C20: with the CI variable set ensureRuntime() does no remediation: no
\* install, no start, no prompt, no polling; it returns the detected status
\* when that is ready and otherwise throws at once.
C20_CiNoRemediation ==
  gate.ci =>
    /\ gate.cmds = <<>>
    /\ ~gate.polled
    /\ gate.host.starting = ""
    /\ gate.pc \in {"enter", "returned", "threw"}
    /\ gate.result = "returned" => gate.status.ready
    /\ gate.result = "threw" =>
         /\ ~gate.status.ready
         /\ gate.error = "No container runtime available in CI environment"

\* in CI, a stopped OrbStack that a local run would have started is left alone
C20_Witness ==
  /\ gate.ci
  /\ gate.result = "threw"
  /\ gate.host.orbstack
  /\ gate.host.engine = "none"
  /\ gate.status.orbstack.installed

\* ---------------------------------------------------------------------------
\* commands of one ensureRuntime() call, by kind
StartCommands == {"orb start", "open -a Docker"}
StartsIssued == Cardinality({i \in DOMAIN gate.cmds : gate.cmds[i] \in StartCommands})
InstallsIssued ==
  Cardinality({i \in DOMAIN gate.cmds : gate.cmds[i] = "brew install orbstack"})

\* C21: Failed is terminal for the readiness gate: one ensureRuntime() call
\* issues at most one start (and at most one install); once waitForReady() has
\* passed its deadline the call throws without a further command or poll, and
\* after a throw nothing changes any more: no retry, no other engine.
C21_FailedTerminal ==
  /\ [](StartsIssued <= 1 /\ InstallsIssued <= 1)
  /\ [][(gate.pc = "wait" /\ ~(gate.elapsed < STARTUP_TIMEOUT_MS)) =>
          /\ gate'.pc \in {"wait", "threw"}
          /\ gate'.cmds = gate.cmds
          /\ gate'.pc = "wait" => gate'.elapsed = gate.elapsed]_vars
  /\ [][gate.result = "threw" => gate' = gate]_vars

\* OrbStack did not come up in time although Docker Desktop is installed too
C21_Witness ==
  /\ gate.pc = "threw"
  /\ gate.error = "OrbStack failed to start within timeout"
  /\ gate.host.dockerApp
  /\ gate.cmds = <<"orb start">>

\* ---------------------------------------------------------------------------
\* the first detection found neither OrbStack nor Docker Desktop installed
NothingDetected ==
  /\ gate.pc # "enter"
  /\ ~gate.detected.orbstack.installed
  /\ ~gate.detected.docker.installed
InstallAuthorized == gate.autoInstall \/ gate.prompt = "yes"
ManualInstructions == {"No container runtime available.", "Homebrew is not installed."}

\* C22: `brew install orbstack` is issued only when the detection found no
\* engine installed, installation was authorized (autoInstall, or the prompt
\* answered yes) and Homebrew is present; when it was declined, no prompt
\* callback exists, or Homebrew is absent, neither an install nor a start
\* command is issued and the gate fails with manual instructions; after a
\* successful install comes the start, and only then the polling.
C22_InstallAuthorized ==
  /\ InstallsIssued > 0 =>
       /\ ~gate.ci
       /\ NothingDetected
       /\ InstallAuthorized
       /\ gate.host.homebrew
  /\ (~gate.ci /\ NothingDetected /\ (~InstallAuthorized \/ ~gate.host.homebrew)) =>
       /\ InstallsIssued = 0
       /\ StartsIssued = 0
       /\ ~gate.polled
       /\ gate.pc \in {"offer", "install", "threw"}
       /\ gate.pc = "threw" => gate.error \in ManualInstructions
  /\ (InstallsIssued > 0 /\ StartsIssued > 0) =>
       /\ gate.cmds[Len(gate.cmds)] \in {"orb start", "open -a OrbStack"}
       /\ \E i \in DOMAIN gate.cmds :
            /\ gate.cmds[i] = "brew install orbstack"
            /\ gate.cmds[i + 1] = "orb start"
  /\ (InstallsIssued > 0 /\ gate.polled) => StartsIssued = 1
  /\ (InstallsIssued > 0 /\ gate.pc \in {"wait", "redetect", "returned", "hung"}) =>
       StartsIssued = 1

\* OrbStack was installed on request, started, polled, and the gate returned
C22_Witness ==
  /\ gate.pc = "returned"
  /\ gate.prompt = "yes"
  /\ ~gate.autoInstall
  /\ gate.cmds = <<"prompt", "brew install orbstack", "orb start">>
  /\ gate.polled

\* ------------------------------------------------------------------
\* the polling loops
\* ------------------------------------------------------------------

\* C23: under every probe behaviour, a probe that never answers included,
\* each polling loop terminates: it returns true or false.
C23_LoopTerminates == <>(poll.pc = "done")

\* what the two readings of C24 share: constant interval, a fresh probe in
\* every iteration, true exactly on a successful probe and at once, false only
\* past the deadline with no probe successful
PollOutcome ==
  /\ poll.slept \in {0, poll.intervalMs}
  /\ poll.probes >= poll.iterations
  /\ poll.pc = "sleep" => poll.probes > 0
  /\ poll.result = "true" <=> poll.succeededIn # 0
  /\ poll.succeededIn # 0 => poll.pc = "done" /\ poll.succeededIn = poll.iterations
  /\ poll.result = "false" => poll.succeededIn = 0 /\ ~(poll.now < poll.timeoutMs)

\* C24 as stated: no probe at all is sent once the deadline has passed, so
\* true is returned only on a probe sent before the deadline.
C24_NoProbeAfterDeadline ==
  /\ PollOutcome
  /\ poll.probes > 0 => poll.probeAt < poll.timeoutMs

\* C24, amended: no iteration is begun once the deadline has passed, so true
\* is returned only on a probe of an iteration begun before the deadline; the
\* second probe of a waitForHealthy iteration may be sent after it.
C24_NoIterationAfterDeadline ==
  /\ PollOutcome
  /\ poll.iterations > 0 => poll.issuedAt < poll.timeoutMs

\* waitForHealthy returns true on a healthz request sent after the deadline
C24_Witness ==
  /\ poll.loop = "waitForHealthy"
  /\ poll.result = "true"
  /\ poll.iterations > 1
  /\ poll.issuedAt < poll.timeoutMs
  /\ ~(poll.probeAt < poll.timeoutMs)

\* ------------------------------------------------------------------
\* uninstall
\* ------------------------------------------------------------------

\* uninstall() went past its gate and ran to its end
UninstallRan == un.pc = "done" /\ un.exit = "returned"

\* C25: an uninstall with a persisted TunnelConfig attempts the deletion of
\* the DNS record and then that of the tunnel, whatever the first one did.
C25_RemoteTeardown ==
  (UninstallRan /\ un.host0.tunnelConfig) =>
    \E i, j \in DOMAIN un.calls :
       /\ i < j
       /\ un.calls[i] = "deleteDnsRecord"
       /\ un.calls[j] = "deleteTunnel"

\* C26: without the bypass flag nothing destructive is attempted before the
\* prompt was answered yes, and after a no the run exits with status 0 with
\* containers, files, volumes and remote objects as they were.
C26_ConfirmGated ==
  /\ (un.ops # <<>> \/ un.calls # <<>> \/ un.host # un.host0) =>
       un.force \/ un.confirmed = "yes"
  /\ un.confirmed = "no" =>
       /\ un.pc = "done"
       /\ un.exit = "0"
       /\ un.host = un.host0
       /\ un.ops = <<>>
       /\ un.calls = <<>>

\* a declined uninstall of a running installation with data and a tunnel
C26_Witness ==
  /\ un.confirmed = "no"
  /\ un.exit = "0"
  /\ ~un.force
  /\ un.host.container = "running"
  /\ un.host.compose /\ un.host.env /\ un.host.volume /\ un.host.tunnelConfig

\* ------------------------------------------------------------------
\* failures of an install run
\* ------------------------------------------------------------------

\* the step whose failure this run has hit, "" when none
RunFailure == IF failedAt # "" THEN failedAt ELSE loc.failure

\* C27: a run that has hit a failure (readiness gate, port, pull, token,
\* account or zone resolution, unknown domain, DNS lookup, tunnel, ingress,
\* tunnel token, DNS write, configuration write, container start, health
\* timeout) goes on to nothing but the deletion of the tunnel it created, ends
\* with a non-zero exit status and never prints the success summary.
C27_FailureExitsNonZero ==
  RunFailure # "" =>
    /\ pc \in {"deleteTunnel", "exited"}
    /\ pc = "deleteTunnel" => failedAt \in CompensatedSteps
    /\ RunEnded => RunFailed
    /\ "printSuccess" \notin LocalOpsDone

\* a tunnel-mode run that provisioned everything and then timed out waiting
\* for the container
C27_Witness ==
  /\ RunEnded
  /\ loc.failure = "waitForHealthy"
  /\ exit = "exit1"
  /\ "dnsRecord" \in stepsOk
  /\ containers = "tunnel"

\* ------------------------------------------------------------------
\* the tunnel configuration
\* ------------------------------------------------------------------

\* IQ-CF-002: none of the nine fields of a TunnelConfig is missing or empty
ConfigFieldsPresent(c) ==
  /\ c.apiToken # ""
  /\ c.accountId # ""
  /\ c.zoneId # ""
  /\ c.zoneName # <<>>
  /\ c.tunnelId # 0
  /\ c.tunnelName # <<>>
  /\ c.tunnelToken # <<>>
  /\ c.hostname # <<>>
  /\ c.dnsRecordId # 0

\* C29: a persisted tunnel configuration, and the one setupCloudflareTunnel
\* returned, has all nine fields present and non-empty; a tunnel-mode run that
\* reaches the configuration step or has written configuration got a
\* configuration, not null, from setupCloudflareTunnel.
C29_ConfigComplete ==
  /\ files.tunnelEnv # NoConfig => ConfigFieldsPresent(files.tunnelEnv)
  /\ loc.tunnelConfig # NoConfig => ConfigFieldsPresent(loc.tunnelConfig)
  /\ (pc = "config" /\ ~options.local) => loc.tunnelConfig # NoConfig
  /\ (LocalOpsDone \cap ConfigWrites # {} /\ ~options.local) => loc.tunnelConfig # NoConfig

\* a configuration persisted by a run that updated an existing DNS record
C29_Witness ==
  /\ files.tunnelEnv # NoConfig
  /\ files.tunnelEnv = loc.tunnelConfig
  /\ loc.existingRecord # NoRecord
  /\ files.tunnelEnv.dnsRecordId = loc.existingRecord.id
  /\ "createTunnelEnvFile" \in LocalOpsDone

\* ------------------------------------------------------------------
\* the zone of a provisioning run
\* ------------------------------------------------------------------

\* the zones this run's listZones() call returned
ZonesOffered == {loc.zones[i] : i \in 1..Len(loc.zones)}

\* C30: the zone a run uses is one of the zones its listZones() call
\* returned, and every zone offered or selected has status "active".
C30_ZoneFromActiveList ==
  /\ \A z \in ZonesOffered : z.status = "active"
  /\ loc.selectedZone # NoZone =>
       /\ loc.selectedZone \in ZonesOffered
       /\ loc.selectedZone.status = "active"
  /\ loc.tunnelConfig # NoConfig =>
       \E z \in ZonesOffered : /\ z.id = loc.tunnelConfig.zoneId
                              /\ z.name = loc.tunnelConfig.zoneName

\* the second of two listed zones was chosen and the run provisioned in it
C30_Witness ==
  /\ Len(loc.zones) = 2
  /\ loc.selectedZone = loc.zones[2]
  /\ loc.tunnelConfig # NoConfig
  /\ loc.tunnelConfig.zoneId = loc.zones[2].id

\* ------------------------------------------------------------------
\* subdomain validation
\* ------------------------------------------------------------------

\* 1 to 63 letters, digits and hyphens, the first and the last not a hyphen
WellFormedLabel(s) ==
  /\ Len(s) >= 1
  /\ Len(s) <= 63
  /\ \A i \in 1..Len(s) : s[i] \in AlNum \cup {Hyphen}
  /\ s[1] # Hyphen
  /\ s[Len(s)] # Hyphen

\* C28: isValidSubdomain returns true exactly for the strings of 1 to 63
\* letters, digits and hyphens that neither start nor end with a hyphen.
C28_AcceptsExactlyLabels ==
  sub.pc = "returned" => (sub.result <=> WellFormedLabel(sub.subdomain))

\* a 63-character string with hyphens inside and a capital first is accepted
C28_Witness ==
  /\ sub.pc = "returned"
  /\ sub.result
  /\ Len(sub.subdomain) = 63
  /\ sub.subdomain[1] = "N"
  /\ sub.subdomain[2] = Hyphen

\* ------------------------------------------------------------------
\* runtime detection
\* ------------------------------------------------------------------

\* the version a version command's answer yields
VersionFrom(answer) == IF answer \in {Unasked, "error", Timeout} THEN "" ELSE answer

\* a returned RuntimeStatus without the version strings
WithoutVersions(st) ==
  [orbstack |-> [installed |-> st.orbstack.installed, running |-> st.orbstack.running],
   docker |-> [installed |-> st.docker.installed, running |-> st.docker.running],
   homebrew |-> st.homebrew,
   ready |-> st.ready,
   activeRuntime |-> st.activeRuntime]

\* C31: detectRuntime() returns only after its three sub-probes have all
\* completed, and what it returns is a function of the host and of the
\* commands' answers alone, whatever the order in which the sub-probes ran
\* and completed.
C31_FanOutFanIn ==
  det.pc = "done" =>
    /\ det.orbstack.pc = "done" /\ det.docker.pc = "done" /\ det.homebrew.pc = "done"
    /\ Len(det.order) = 3
    /\ {det.order[i] : i \in 1..3} = {"orbstack", "docker", "homebrew"}
    /\ WithoutVersions(det.result) = detectRuntime(det.host, det.answers)
    /\ det.result.orbstack.version = VersionFrom(det.answers.orbVersion)
    /\ det.result.docker.version = VersionFrom(det.answers.dockerVersion)

\* the longest sub-probe completed last, the shortest first
C31_Witness ==
  /\ det.pc = "done"
  /\ det.order = <<"homebrew", "docker", "orbstack">>
  /\ det.answers.orbStatus = Timeout
  /\ det.answers.orbInfo = "orbstack"
  /\ det.result.activeRuntime = "orbstack"
  /\ det.result.orbstack.version = "2.0.5"

\* the same detection with the sub-probes completing in the opposite order
C31_WitnessReversed ==
  /\ det.pc = "done"
  /\ det.order = <<"orbstack", "docker", "homebrew">>
  /\ det.answers.orbStatus = Timeout
  /\ det.answers.orbInfo = "orbstack"
  /\ det.result.activeRuntime = "orbstack"
  /\ det.result.orbstack.version = "2.0.5"

\* C32: in every RuntimeStatus detectRuntime() returns, ready holds exactly
\* when an engine runs, activeRuntime is set exactly when ready holds and is
\* "orbstack" whenever OrbStack runs, a running engine is installed, and only
\* a running engine has a version.
C32_StatusConsistent ==
  det.pc = "done" =>
    /\ det.result.ready <=> (det.result.orbstack.running \/ det.result.docker.running)
    /\ det.result.activeRuntime # "" <=> det.result.ready
    /\ det.result.activeRuntime \in {"", "orbstack", "docker-desktop"}
    /\ det.result.orbstack.running => det.result.activeRuntime = "orbstack"
    /\ det.result.orbstack.running => det.result.orbstack.installed
    /\ det.result.docker.running => det.result.docker.installed
    /\ det.result.orbstack.version # "" => det.result.orbstack.running
    /\ det.result.docker.version # "" => det.result.docker.running

\* both engines run and both report a version: OrbStack is the active one
C32_Witness ==
  /\ det.pc = "done"
  /\ det.result.orbstack.running
  /\ det.result.docker.running
  /\ det.result.activeRuntime = "orbstack"
  /\ det.result.orbstack.version # ""
  /\ det.result.docker.version # ""

\* ------------------------------------------------------------------
\* the engine ensureRuntime() starts
\* ------------------------------------------------------------------
GateCommands == {gate.cmds[i] : i \in DOMAIN gate.cmds}
GateEnded == gate.result \in {"returned", "threw"}

\* Docker Desktop is started only when the detection found it installed and
\* OrbStack not installed
DockerStartedOnlyAlone ==
  "open -a Docker" \in GateCommands =>
    /\ gate.detected.docker.installed
    /\ ~gate.detected.orbstack.installed

C34_AlwaysSettles == <>(rwt.promise \in {"resolved", "rejected"})

\* what does hold: the promise never rejects, its value is set once, null
\* when the timer callback ran first and after a kill
C34_SettledOnce ==
  /\ rwt.promise # "rejected"
  /\ rwt.promise = "resolved" <=> rwt.value # "none"
  /\ (rwt.promise = "resolved" /\ rwt.first = "timer") => rwt.value = "null"
  /\ rwt.value = "result" => rwt.first = "exit" /\ rwt.exitCode \in {0, 1}

\* ------------------------------------------------------------------
\* install(): order of the local steps
\* ------------------------------------------------------------------
\* the two writers of step 6, in the order install() calls them
ConfigPairs ==
  {<<"copyDockerCompose", "createEnvFile">>,
   <<"copyDockerComposeWithTunnel", "createTunnelEnvFile">>}

\* C35: containers are started only after both configuration files were
\* written, the success summary is printed only after the health wait returned
\* true, and a run that found port 8443 in use (it was not adding a tunnel to
\* an existing installation) ends with exit code 1 having pulled no image,
\* sent no request, written no configuration and started no container.
C35_OrderedFailStop ==
  /\ \A k \in 1..Len(localOps) :
       localOps[k] = "composeUp" =>
         /\ k >= 3
         /\ <<localOps[k - 2], localOps[k - 1]>> \in ConfigPairs
         /\ files.compose # "" /\ files.env # ""
         /\ loc.failure # "config"
  /\ \A k \in 1..Len(localOps) :
       localOps[k] = "printSuccess" =>
         /\ k >= 2
         /\ localOps[k - 1] = "composeUp"
         /\ loc.failure = ""
         /\ containers # ""
         /\ exit = "returned"
  /\ loc.failure = "isPortAvailable" =>
       /\ RunEnded /\ exit = "exit1"
       /\ ~loc.addingTunnelToExisting
       /\ localOps = <<"isPortAvailable">>
       /\ calls = <<>>
       /\ stepsOk = {}

\* a second run, forced over a running installation, finds the port in use
C35_Witness ==
  /\ loc.failure = "isPortAvailable"
  /\ containers # ""
  /\ files.compose # ""

\* ------------------------------------------------------------------
\* install --local
\* ------------------------------------------------------------------
\* where a run is while inside setupCloudflareTunnel(): the token prompt, the
\* zone and subdomain prompts and every Cloudflare request are made there
TunnelSetupSteps == RemoteSteps \cup {"selectZone", "subdomain", "confirm"}

\* the local steps of a run with the tunnel
TunnelLocalOps == {"copyDockerComposeWithTunnel", "createTunnelEnvFile"}

\* C36: a run with --local never enters the tunnel set-up (no Cloudflare
\* request, no token prompt, no provisioning step), writes its configuration
\* with copyDockerCompose / createEnvFile only and starts the containers
\* without the tunnel profile.
C36_LocalRunStaysLocal ==
  (options.local /\ pc # "idle") =>
    /\ calls = <<>> /\ inflight = {}
    /\ pc \notin TunnelSetupSteps
    /\ stepsOk = {} /\ failedAt = ""
    /\ loc.tokenStatus = "" /\ loc.tunnelConfig = NoConfig
    /\ LocalOpsDone \cap TunnelLocalOps = {}
    /\ "composeUp" \in LocalOpsDone =>
         /\ {"copyDockerCompose", "createEnvFile"} \subseteq LocalOpsDone
         /\ files.compose = "plain" /\ files.env = "plain"
    /\ (pc = "waitForHealthy" \/ "printSuccess" \in LocalOpsDone) =>
         containers = "plain"

\* a --local run, the second one on this host, that completed
C36_Witness ==
  /\ options.local
  /\ "printSuccess" \in LocalOpsDone
  /\ containers = "plain"
  /\ runs = 2
  /\ files.tunnelEnv = NoConfig

\* ------------------------------------------------------------------
\* uninstall(): best effort, and the data volume
\* ------------------------------------------------------------------
\* neither generated file was there when the run began
NothingInstalled == ~un.host0.compose /\ ~un.host0.env

\* C37: with neither the compose file nor the env file the run exits with
\* status 0 having prompted for nothing and touched nothing; otherwise a
\* compose down that failed is still followed by the removal of the generated
\* files, and the run returns.
C37_BestEffort ==
  /\ (NothingInstalled /\ un.pc \notin {"idle", "check"}) =>
       /\ un.pc = "done" /\ un.exit = "0"
       /\ un.ops = <<>> /\ un.calls = <<>>
       /\ un.host = un.host0
       /\ un.confirmed = "none" /\ un.askedVolumes = "none"
  /\ un.down = "failed" =>
       /\ ~NothingInstalled
       /\ un.force \/ un.confirmed = "yes"
       /\ un.pc \in {"clean", "done"}
       /\ un.pc = "clean" => ENABLED UninstallRemoveFiles
       /\ un.pc = "done" =>
            /\ un.exit = "returned"
            /\ Len(un.ops) = 2 /\ un.ops[2] = "rm"

\* compose down failed, both files were removed all the same, the run returned
C37_Witness ==
  /\ un.down = "failed"
  /\ un.pc = "done"
  /\ un.host0.compose /\ un.host0.env
  /\ ~un.host.compose /\ ~un.host.env
  /\ un.host.container = un.host0.container

\* C38: compose down takes the volumes along only when --remove-volumes was
\* given or the data-removal prompt was answered yes, and the volume goes only
\* then; with --force and without --remove-volumes there is no prompt and the
\* volume is kept.
C38_VolumeOnlyOnRequest ==
  LET requested == un.flag \/ un.askedVolumes = "yes"
      withVolumes == \E i \in 1..Len(un.ops) : un.ops[i] = "compose down -v"
  IN /\ withVolumes => requested
     /\ (un.host0.volume /\ ~un.host.volume) => requested
     /\ (un.force /\ ~un.flag) =>
          /\ ~withVolumes
          /\ un.host.volume = un.host0.volume
          /\ un.confirmed = "none" /\ un.askedVolumes = "none"

\* a forced run without --remove-volumes stopped the containers of an
\* installation with data, and the volume is still there
C38_Witness ==
  /\ un.force /\ ~un.flag
  /\ un.host0.volume /\ un.host.volume
  /\ un.hasVolume
  /\ un.down = "ok"
  /\ un.ops = <<"compose down">>

====
